---- MODULE Spec2Model ----
\* Knowledge-graph subsystem of PlanOpticon: the storage contract with its two
\* backends (graph_store.py), the integration layer (knowledge_graph.py) and
\* the query engine (graph_query.py).
EXTENDS Integers, Sequences, FiniteSets, TLC

\* ---------------------------------------------------------------- values

\* Python's None where a string or a number is expected.
None == "<None>"

\* Python's None where an entity record is expected.
NoEntity == [none |-> TRUE]

\* Strings that the code lowercases or truncates are sequences of characters.
Py == <<"P", "y">>
py == <<"p", "y">>
Bo == <<"B", "o">>
Bob == <<"B", "o", "b">>
Alice == <<"A", "l", "i", "c", "e">>
Python == <<"P", "y", "t", "h", "o", "n">>
Django == <<"D", "j", "a", "n", "g", "o">>
Empty == <<>>
Names == {Py, py, Bo, Bob, Alice, Python, Django, Empty}

\* str.lower(), one character at a time.
LowerChar(c) ==
  CASE c = "P" -> "p"
    [] c = "Y" -> "y"
    [] c = "B" -> "b"
    [] c = "O" -> "o"
    [] c = "A" -> "a"
    [] c = "D" -> "d"
    [] OTHER -> c

Lower(s) == [i \in 1..Len(s) |-> LowerChar(s[i])]

Range(s) == {s[i] : i \in 1..Len(s)}

\* list(a_set): the elements in some order, each once.
RECURSIVE SetToList(_)
SetToList(S) ==
  IF S = {} THEN <<>>
  ELSE LET x == CHOOSE y \in S : TRUE IN <<x>> \o SetToList(S \ {x})

\* ------------------------------------------------------------- bounds

\* Most occurrence records the model lets one store hold in total.
MaxOcc == 2
\* Most relationship records the model lets one store hold.
MaxRels == 1
\* Most KnowledgeGraph calls in one run of the model.
MaxKgCalls == 3
\* Largest depth a query plan or a caller asks neighbors for.
MaxDepth == 2
\* Most store calls made on a populated store in one run of the model.
MaxStoreCalls == 2
\* Largest limit a caller passes to entities and relationships besides the default.
MaxLimit == 2
\* Largest max_retries an orchestrator is constructed with.
MaxRetries == 2

\* ------------------------------------------------------------- inputs

\* Arguments of merge_entity the model draws from.
MergeInputs ==
  { [name |-> Py, type |-> "technology", descriptions |-> <<"d1">>, source |-> None],
    [name |-> py, type |-> "person", descriptions |-> <<"d2", "d2">>, source |-> "transcript"],
    [name |-> Bo, type |-> "person", descriptions |-> <<>>, source |-> None] }

\* Arguments of add_occurrence (entity_name is drawn from Names).
OccInputs ==
  { [source |-> "v1", timestamp |-> "0.0", text |-> "t1"],
    [source |-> "v2", timestamp |-> None, text |-> None] }

\* Arguments of add_relationship.
RelInputs ==
  { [source |-> Py, target |-> Bo, type |-> "uses", content_source |-> "v1", timestamp |-> "0.0"],
    [source |-> Bo, target |-> py, type |-> "knows", content_source |-> None, timestamp |-> None],
    [source |-> py, target |-> Empty, type |-> "uses", content_source |-> None, timestamp |-> None] }

VARIABLES
  nodes,          \* InMemoryStore._nodes: the dict as its items in insertion order
  relationships,  \* InMemoryStore._relationships
  graph,          \* FalkorDBStore: the "knowledge" graph of the engine
  supplied,       \* history: the descriptions each merge_entity call was given, by name
  kg,             \* the KnowledgeGraph objects: kg.self (the destination) and kg.other
  heap,           \* the description set objects of the KnowledgeGraph nodes, by reference
  call,           \* history: the last KnowledgeGraph call and how it ended
  ncalls,         \* history: the number of KnowledgeGraph calls made
  otherMerged,    \* history: kg.other was merged into kg.self and not changed since
  pureMerges,     \* history: merges into kg.self while nothing else touched it (-1: other calls)
  pm,             \* GraphQueryEngine.pm: whether a provider manager is configured
  answer,         \* history: the last GraphQueryEngine.ask call and how it ended
  lastQuery,      \* history: the last direct-mode call of the engine and what it returned
  storeCall,      \* history: the last store call, the query texts it sent, what it returned
  nstore,         \* history: the number of store calls recorded in storeCall
  agent,          \* AgentOrchestrator: max_retries, _plan, _results, _insights
  run             \* process(): its phase, its position in the plan, the report; history: the last step

storeVars == <<nodes, relationships, graph, supplied>>
kgVars == <<kg, heap, call, ncalls, otherMerged, pureMerges>>
askVars == <<pm, answer, lastQuery>>
callVars == <<storeCall, nstore>>
agentVars == <<agent, run>>
vars == <<nodes, relationships, graph, supplied,
          kg, heap, call, ncalls, otherMerged, pureMerges, pm, answer, lastQuery,
          storeCall, nstore, agent, run>>

\* ------------------------------------------------- InMemoryStore (dict helpers)

\* key in self._nodes
HasKey(ns, key) == \E i \in 1..Len(ns) : ns[i].key = key

\* position of a key in the dict's insertion order
KeyIndex(ns, key) == CHOOSE i \in 1..Len(ns) : ns[i].key = key

\* self._nodes[key]
NodeAt(ns, key) == ns[KeyIndex(ns, key)].val

\* self._nodes[key] = val
SetNode(ns, key, val) ==
  IF HasKey(ns, key)
  THEN [ns EXCEPT ![KeyIndex(ns, key)].val = val]
  ELSE Append(ns, [key |-> key, val |-> val])

\* InMemoryStore.merge_entity with the name left as it is (no lower()).
MemMergeEntityCaseSensitive(ns, name, entity_type, descriptions, source) ==
  IF HasKey(ns, name)
  THEN IF descriptions # <<>>
       THEN SetNode(ns, name,
              [NodeAt(ns, name) EXCEPT !.descriptions = @ \cup Range(descriptions)])
       ELSE ns
  ELSE SetNode(ns, name,
         [id |-> name, name |-> name, type |-> entity_type,
          descriptions |-> Range(descriptions), occurrences |-> <<>>,
          source |-> source])

\* InMemoryStore.merge_entity that overwrites the record of an existing entity.
MemMergeEntityOverwrite(ns, name, entity_type, descriptions, source) ==
  LET key == Lower(name) IN
  SetNode(ns, key,
    [id |-> name, name |-> name, type |-> entity_type,
     descriptions |-> (IF HasKey(ns, key) THEN NodeAt(ns, key).descriptions ELSE {})
                        \cup Range(descriptions),
     occurrences |-> <<>>, source |-> source])

MemMergeEntity(ns, name, entity_type, descriptions, source) ==
  LET key == Lower(name) IN
  IF HasKey(ns, key)
  THEN IF descriptions # <<>>
       THEN SetNode(ns, key,
              [NodeAt(ns, key) EXCEPT !.descriptions = @ \cup Range(descriptions)])
       ELSE ns
  ELSE SetNode(ns, key,
         [id |-> name, name |-> name, type |-> entity_type,
          descriptions |-> Range(descriptions), occurrences |-> <<>>,
          source |-> source])

\* an add_occurrence that looks the key up as written, not lowercased
MemAddOccurrenceAsWritten(ns, entity_name, source, timestamp, text) ==
  LET key == entity_name IN
  IF HasKey(ns, key)
  THEN SetNode(ns, key,
         [NodeAt(ns, key) EXCEPT !.occurrences =
            Append(@, [source |-> source, timestamp |-> timestamp, text |-> text])])
  ELSE ns

MemAddOccurrence(ns, entity_name, source, timestamp, text) ==
  LET key == Lower(entity_name) IN
  IF HasKey(ns, key)
  THEN SetNode(ns, key,
         [NodeAt(ns, key) EXCEPT !.occurrences =
            Append(@, [source |-> source, timestamp |-> timestamp, text |-> text])])
  ELSE ns

MemAddRelationship(rels, source, target, rel_type, content_source, timestamp) ==
  Append(rels, [source |-> source, target |-> target, type |-> rel_type,
                content_source |-> content_source, timestamp |-> timestamp])

MemGetEntity(ns, name) ==
  IF HasKey(ns, Lower(name)) THEN NodeAt(ns, Lower(name)) ELSE NoEntity

MemGetAllEntities(ns) == [i \in 1..Len(ns) |-> ns[i].val]

MemGetAllRelationships(rels) == rels

MemGetEntityCount(ns) == Len(ns)

MemGetRelationshipCount(rels) == Len(rels)

MemHasEntity(ns, name) == HasKey(ns, Lower(name))

\* total number of occurrence records held by the in-process store
RECURSIVE OccTotal(_)
OccTotal(ns) ==
  IF ns = <<>> THEN 0 ELSE Len(ns[1].val.occurrences) + OccTotal(Tail(ns))

\* ------------------------------------------------------------ FalkorDBStore
\* The engine's graph: Entity nodes in creation order, Occurrence nodes each with
\* its OCCURRED_IN edge from an entity, and the edges between entities.

\* MATCH (e:Entity {name_lower: $name_lower})
FdbMatch(g, name_lower) == {i \in 1..Len(g.ents) : g.ents[i].name_lower = name_lower}

\* result.result_set[0] of a MATCH on entities
FdbFirst(g, name_lower) == CHOOSE i \in FdbMatch(g, name_lower) :
                             \A j \in FdbMatch(g, name_lower) : i <= j

FdbMergeEntity(g, name, entity_type, descriptions, source) ==
  LET name_lower == Lower(name) IN
  IF FdbMatch(g, name_lower) # {}
  THEN LET existing_descs == g.ents[FdbFirst(g, name_lower)].descriptions
           merged == SetToList(Range(existing_descs \o descriptions))
       IN [g EXCEPT !.ents = [i \in 1..Len(g.ents) |->
             IF i \in FdbMatch(g, name_lower)
             THEN [g.ents[i] EXCEPT !.descriptions = merged]
             ELSE g.ents[i]]]
  ELSE [g EXCEPT !.ents = Append(@,
          [name |-> name, name_lower |-> name_lower, type |-> entity_type,
           descriptions |-> descriptions, source |-> source])]

\* matched node ids in the order the engine scans them (creation order)
RECURSIVE Ascending(_)
Ascending(S) ==
  IF S = {} THEN <<>>
  ELSE LET i == CHOOSE x \in S : \A y \in S : x <= y
       IN <<i>> \o Ascending(S \ {i})

\* MATCH (e) CREATE (o:Occurrence) CREATE (e)-[:OCCURRED_IN]->(o): one per match
FdbAddOccurrence(g, entity_name, source, timestamp, text) ==
  LET hit == Ascending(FdbMatch(g, Lower(entity_name)))
  IN [g EXCEPT !.occs = @ \o [k \in 1..Len(hit) |->
        [ent |-> hit[k], source |-> source, timestamp |-> timestamp, text |-> text]]]

\* an add_relationship whose MATCH (b) is optional: with no entity for the
\* target the edge is created on the source alone
FdbAddRelationshipOptionalTarget(g, source, target, rel_type, content_source, timestamp) ==
  LET as == Ascending(FdbMatch(g, Lower(source)))
      bs == IF FdbMatch(g, Lower(target)) = {} THEN as
            ELSE Ascending(FdbMatch(g, Lower(target)))
      n == Len(as) * Len(bs)
  IN [g EXCEPT !.edges = @ \o [k \in 1..n |->
        [a |-> as[((k - 1) \div Len(bs)) + 1], b |-> bs[((k - 1) % Len(bs)) + 1],
         label |-> "RELATED_TO", rel_type |-> rel_type,
         content_source |-> content_source, timestamp |-> timestamp]]]

\* MATCH (a) MATCH (b) CREATE (a)-[:RELATED_TO]->(b): one per matched pair
FdbAddRelationship(g, source, target, rel_type, content_source, timestamp) ==
  LET as == Ascending(FdbMatch(g, Lower(source)))
      bs == Ascending(FdbMatch(g, Lower(target)))
      n == Len(as) * Len(bs)
  IN [g EXCEPT !.edges = @ \o [k \in 1..n |->
        [a |-> as[((k - 1) \div Len(bs)) + 1], b |-> bs[((k - 1) % Len(bs)) + 1],
         label |-> "RELATED_TO", rel_type |-> rel_type,
         content_source |-> content_source, timestamp |-> timestamp]]]

\* the occurrence records a MATCH (e)-[:OCCURRED_IN]->(o) returns for an entity
FdbOccurrences(g, name_lower) ==
  LET hit == SelectSeq(g.occs, LAMBDA o : o.ent \in FdbMatch(g, name_lower))
  IN [k \in 1..Len(hit) |->
        [source |-> hit[k].source, timestamp |-> hit[k].timestamp, text |-> hit[k].text]]

\* `row[i] or "concept"` of a returned type
OrConcept(t) == IF t = None \/ t = "" THEN "concept" ELSE t

FdbGetAllEntities(g) ==
  [i \in 1..Len(g.ents) |->
     [id |-> g.ents[i].name, name |-> g.ents[i].name,
      type |-> OrConcept(g.ents[i].type),
      descriptions |-> g.ents[i].descriptions,
      occurrences |-> FdbOccurrences(g, g.ents[i].name_lower),
      source |-> g.ents[i].source]]

FdbGetEntity(g, name) ==
  IF FdbMatch(g, Lower(name)) = {} THEN NoEntity
  ELSE FdbGetAllEntities(g)[FdbFirst(g, Lower(name))]

FdbGetEntityCount(g) == Len(g.ents)

FdbHasEntity(g, name) == Cardinality(FdbMatch(g, Lower(name))) > 0

\* ------------------------------------- typed relationships and properties
\* A properties dict is the sequence of its items (k, v) in insertion order.

\* dict.update(properties)
RECURSIVE UpdateWith(_, _)
UpdateWith(rec, properties) ==
  IF properties = <<>> THEN rec
  ELSE UpdateWith((properties[1].k :> properties[1].v) @@ rec, Tail(properties))

MemAddTypedRelationship(rels, source, target, edge_label, properties) ==
  Append(rels, UpdateWith([source |-> source, target |-> target, type |-> edge_label],
                          properties))

\* a set_entity_properties that looks the key up as written, not lowercased
MemSetEntityPropertiesAsWritten(ns, name, properties) ==
  LET key == name IN
  IF HasKey(ns, key) THEN SetNode(ns, key, UpdateWith(NodeAt(ns, key), properties)) ELSE ns

\* InMemoryStore.set_entity_properties: the store after the call (it returns
\* whether the entity exists)
MemSetEntityProperties(ns, name, properties) ==
  LET key == Lower(name) IN
  IF HasKey(ns, key) THEN SetNode(ns, key, UpdateWith(NodeAt(ns, key), properties)) ELSE ns

MemHasRelationship(rels, source, target, edge_label) ==
  \E i \in 1..Len(rels) :
    /\ Lower(rels[i].source) = Lower(source)
    /\ Lower(rels[i].target) = Lower(target)
    /\ (edge_label = None \/ rels[i].type = edge_label)

\* MATCH (a) MATCH (b) CREATE (a)-[r:<edge_label>]->(b) SET r.<k> = ...: one
\* edge of that label per matched pair
FdbAddTypedRelationship(g, source, target, edge_label, properties) ==
  LET as == Ascending(FdbMatch(g, Lower(source)))
      bs == Ascending(FdbMatch(g, Lower(target)))
      n == Len(as) * Len(bs)
  IN [g EXCEPT !.edges = @ \o [k \in 1..n |->
        UpdateWith([a |-> as[((k - 1) \div Len(bs)) + 1],
                    b |-> bs[((k - 1) % Len(bs)) + 1],
                    label |-> edge_label], properties)]]

\* FalkorDBStore.set_entity_properties: the graph after the call (it returns
\* has_entity(name))
FdbSetEntityProperties(g, name, properties) ==
  IF ~FdbHasEntity(g, name) \/ properties = <<>> THEN g
  ELSE [g EXCEPT !.ents = [i \in 1..Len(g.ents) |->
          IF i \in FdbMatch(g, Lower(name))
          THEN UpdateWith(g.ents[i], properties) ELSE g.ents[i]]]

\* MATCH (a)-[:<edge_label>]->(b) RETURN count(*) > 0, or -[]-> when edge_label
\* is None or empty
FdbHasRelationship(g, source, target, edge_label) ==
  \E i \in 1..Len(g.edges) :
    /\ g.edges[i].a \in FdbMatch(g, Lower(source))
    /\ g.edges[i].b \in FdbMatch(g, Lower(target))
    /\ (edge_label = None \/ edge_label = "" \/ g.edges[i].label = edge_label)

\* `row[2] or "related_to"` of an edge's rel_type, null when the edge has none
OrRelatedTo(edge) ==
  IF "rel_type" \notin DOMAIN edge THEN "related_to"
  ELSE IF edge.rel_type = None \/ edge.rel_type = "" THEN "related_to"
  ELSE edge.rel_type

\* a property of an edge, null when the edge does not have it
EdgeProperty(edge, key) == IF key \in DOMAIN edge THEN edge[key] ELSE None

\* MATCH (a:Entity)-[r:RELATED_TO]->(b:Entity) RETURN ...
FdbGetAllRelationships(g) ==
  LET related == SelectSeq(g.edges, LAMBDA e : e.label = "RELATED_TO")
  IN [k \in 1..Len(related) |->
        [source |-> g.ents[related[k].a].name,
         target |-> g.ents[related[k].b].name,
         type |-> OrRelatedTo(related[k]),
         content_source |-> EdgeProperty(related[k], "content_source"),
         timestamp |-> EdgeProperty(related[k], "timestamp")]]

\* count of MATCH ()-[r]->() minus count of MATCH ()-[r:OCCURRED_IN]->()
FdbGetRelationshipCount(g) ==
  (Len(g.edges) + Len(g.occs))
    - (Len(g.occs) + Len(SelectSeq(g.edges, LAMBDA e : e.label = "OCCURRED_IN")))

\* ------------------------------------------------ FalkorDBStore query texts

\* ", ".join(parts)
RECURSIVE JoinComma(_)
JoinComma(parts) ==
  IF parts = <<>> THEN ""
  ELSE IF Len(parts) = 1 THEN parts[1]
  ELSE parts[1] \o ", " \o JoinComma(Tail(parts))

\* f"{var}.{k} = $prop_{i}" for the items of a properties dict
Assignments(var, properties) ==
  [i \in 1..Len(properties) |->
     var \o "." \o properties[i].k \o " = $prop_" \o ToString(i - 1)]

\* the texts FalkorDBStore.merge_entity sends
FdbMergeEntityQueries(g, name) ==
  << "MATCH (e:Entity {name_lower: $name_lower}) RETURN e.descriptions",
     IF FdbMatch(g, Lower(name)) # {}
     THEN "MATCH (e:Entity {name_lower: $name_lower}) SET e.descriptions = $descs"
     ELSE "CREATE (e:Entity {name: $name, name_lower: $name_lower, type: $type, "
            \o "descriptions: $descs, source: $source})" >>

FdbAddOccurrenceQueries ==
  << "MATCH (e:Entity {name_lower: $name_lower}) "
       \o "CREATE (o:Occurrence {source: $source, timestamp: $timestamp, text: $text}) "
       \o "CREATE (e)-[:OCCURRED_IN]->(o)" >>

FdbAddRelationshipQueries ==
  << "MATCH (a:Entity {name_lower: $src_lower}) "
       \o "MATCH (b:Entity {name_lower: $tgt_lower}) "
       \o "CREATE (a)-[:RELATED_TO {"
       \o "rel_type: $rel_type, content_source: $content_source, timestamp: $timestamp"
       \o "}]->(b)" >>

\* the text FalkorDBStore.add_typed_relationship builds and sends
FdbAddTypedRelationshipQueries(edge_label, properties) ==
  << "MATCH (a:Entity {name_lower: $src_lower}) "
       \o "MATCH (b:Entity {name_lower: $tgt_lower}) "
       \o "CREATE (a)-[r:" \o edge_label \o "]->(b)"
       \o (IF properties # <<>>
           THEN " SET " \o JoinComma(Assignments("r", properties)) ELSE "") >>

\* the texts FalkorDBStore.set_entity_properties sends: has_entity, then the SET
FdbSetEntityPropertiesQueries(g, name, properties) ==
  << "MATCH (e:Entity {name_lower: $name_lower}) RETURN count(e)" >>
  \o (IF FdbHasEntity(g, name) /\ properties # <<>>
      THEN << "MATCH (e:Entity {name_lower: $name_lower}) SET "
                \o JoinComma(Assignments("e", properties)) >>
      ELSE << >>)

\* the text FalkorDBStore.has_relationship sends
FdbHasRelationshipQueries(edge_label) ==
  IF edge_label # None /\ edge_label # ""
  THEN << "MATCH (a:Entity {name_lower: $src_lower})"
            \o "-[:" \o edge_label \o "]->"
            \o "(b:Entity {name_lower: $tgt_lower}) "
            \o "RETURN count(*)" >>
  ELSE << "MATCH (a:Entity {name_lower: $src_lower})"
            \o "-[]->"
            \o "(b:Entity {name_lower: $tgt_lower}) "
            \o "RETURN count(*)" >>

\* ------------------------------------------------------------- snapshot

\* `descs` of to_dict: list(descs) when it is a set, the list itself otherwise
DescList(descs) == IF IsFiniteSet(descs) THEN SetToList(descs) ELSE descs

\* to_dict that drops the occurrence records of every node.
ToDictNoOccurrences(entities, rels) ==
  [nodes |-> [i \in 1..Len(entities) |->
                [id |-> entities[i].id, name |-> entities[i].name,
                 type |-> entities[i].type,
                 descriptions |-> DescList(entities[i].descriptions),
                 occurrences |-> <<>>]],
   relationships |-> rels]

\* GraphStore.to_dict over get_all_entities() and get_all_relationships()
ToDict(entities, rels) ==
  [nodes |-> [i \in 1..Len(entities) |->
                [id |-> entities[i].id, name |-> entities[i].name,
                 type |-> entities[i].type,
                 descriptions |-> DescList(entities[i].descriptions),
                 occurrences |-> entities[i].occurrences]],
   relationships |-> rels]

\* the add_occurrence calls from_json_path makes for one node
RECURSIVE LoadOccurrences(_, _, _)
LoadOccurrences(ns, name, occs) ==
  IF occs = <<>> THEN ns
  ELSE LoadOccurrences(
         MemAddOccurrence(ns, name, occs[1].source, occs[1].timestamp, occs[1].text),
         name, Tail(occs))

\* the loop of from_json_path over data["nodes"]
RECURSIVE LoadNodes(_, _)
LoadNodes(ns, dnodes) ==
  IF dnodes = <<>> THEN ns
  ELSE LET n == dnodes[1]
           merged == MemMergeEntity(ns, n.name, n.type, n.descriptions, None)
       IN LoadNodes(LoadOccurrences(merged, n.name, n.occurrences), Tail(dnodes))

\* the loop of from_json_path over data["relationships"]
RECURSIVE LoadRelationships(_, _)
LoadRelationships(rels, drels) ==
  IF drels = <<>> THEN rels
  ELSE LoadRelationships(
         MemAddRelationship(rels, drels[1].source, drels[1].target, drels[1].type,
                            drels[1].content_source, drels[1].timestamp),
         Tail(drels))

\* GraphQueryEngine.from_json_path: the store built from a snapshot
FromJsonPath(data) ==
  [nodes |-> LoadNodes(<<>>, data.nodes),
   relationships |-> LoadRelationships(<<>>, data.relationships)]

\* ------------------------------------------------------------- store actions

NoSupply == [n \in Names |-> [called |-> FALSE, descs |-> {}]]

StoreInit ==
  /\ nodes = <<>>
  /\ relationships = <<>>
  /\ graph = [ents |-> <<>>, occs |-> <<>>, edges |-> <<>>]
  /\ supplied = NoSupply

\* store.merge_entity(...) on both backends
merge_entity(in) ==
  /\ nodes' = MemMergeEntity(nodes, in.name, in.type, in.descriptions, in.source)
  /\ graph' = FdbMergeEntity(graph, in.name, in.type, in.descriptions, in.source)
  /\ supplied' = [supplied EXCEPT ![in.name] =
                    [called |-> TRUE, descs |-> @.descs \cup Range(in.descriptions)]]
  /\ UNCHANGED relationships

\* what store.add_occurrence(...) does on both backends
AddOccurrence(name, o) ==
  /\ nodes' = MemAddOccurrence(nodes, name, o.source, o.timestamp, o.text)
  /\ graph' = FdbAddOccurrence(graph, name, o.source, o.timestamp, o.text)
  /\ UNCHANGED <<relationships, supplied>>

\* store.add_occurrence(...) on both backends
add_occurrence(name, o) ==
  /\ OccTotal(nodes) < MaxOcc
  /\ AddOccurrence(name, o)

\* what store.add_relationship(...) does on both backends
AddRelationship(r) ==
  /\ relationships' = MemAddRelationship(relationships, r.source, r.target, r.type,
                                         r.content_source, r.timestamp)
  /\ graph' = FdbAddRelationship(graph, r.source, r.target, r.type,
                                 r.content_source, r.timestamp)
  /\ UNCHANGED <<nodes, supplied>>

\* store.add_relationship(...) on both backends
add_relationship(r) ==
  /\ Len(relationships) < MaxRels
  /\ AddRelationship(r)

\* The in-process store is saved with to_dict() and replaced by the store that
\* from_json_path builds from the snapshot.
from_json_path ==
  LET loaded == FromJsonPath(ToDict(MemGetAllEntities(nodes),
                                    MemGetAllRelationships(relationships)))
  IN /\ nodes' = loaded.nodes
     /\ relationships' = loaded.relationships
     /\ UNCHANGED <<graph, supplied>>

StoreNext ==
  \/ \E in \in MergeInputs : merge_entity(in)
  \/ \E name \in Names, o \in OccInputs : add_occurrence(name, o)
  \/ \E r \in RelInputs : add_relationship(r)
  \/ from_json_path


\* ------------------------------------------------------------- store claims

\* names equal when compared case-insensitively
SameName(a, b) == Lower(a) = Lower(b)

\* the names merge_entity has been called with
MergedNames == {n \in Names : supplied[n].called}

\* every description supplied under a spelling of `name`
SuppliedUnder(name) ==
  UNION {supplied[n].descs : n \in {m \in MergedNames : SameName(m, name)}}

\* C1: after any sequence of merge_entity calls the entity count is the number of
\* distinct lowercased names merged (1 when the names differ only by case), and
\* each entity's description set is the union of the descriptions supplied under
\* any spelling of its name, on the in-process and on the graph-database backend.
C1_MergeDedup ==
  /\ MemGetEntityCount(nodes) = Cardinality({Lower(n) : n \in MergedNames})
  /\ FdbGetEntityCount(graph) = Cardinality({Lower(n) : n \in MergedNames})
  /\ \A n \in MergedNames :
       /\ MemGetEntity(nodes, n) # NoEntity
       /\ MemGetEntity(nodes, n).descriptions = SuppliedUnder(n)
       /\ FdbGetEntity(graph, n) # NoEntity
       /\ Range(FdbGetEntity(graph, n).descriptions) = SuppliedUnder(n)

\* C1 witness: "Py" and "py" were both merged, beside another name: two entities,
\* the first holding the descriptions of both spellings.
C1_Witness ==
  /\ MergedNames = {Py, py, Bo}
  /\ MemGetEntityCount(nodes) = 2
  /\ MemGetEntity(nodes, Py).descriptions = {"d1", "d2"}
  /\ Range(FdbGetEntity(graph, py).descriptions) = {"d1", "d2"}

\* what merge_entity(in) may change in the in-process store
MergeFrame(in) ==
  LET key == Lower(in.name) IN
  /\ relationships' = relationships
  /\ IF MemHasEntity(nodes, in.name)
     THEN /\ Len(nodes') = Len(nodes)
          /\ \A i \in 1..Len(nodes) :
               /\ nodes'[i].key = nodes[i].key
               /\ nodes'[i].val.id = nodes[i].val.id
               /\ nodes'[i].val.name = nodes[i].val.name
               /\ nodes'[i].val.type = nodes[i].val.type
               /\ nodes'[i].val.occurrences = nodes[i].val.occurrences
               /\ nodes'[i].val.source = nodes[i].val.source
               /\ nodes[i].key # key => nodes'[i] = nodes[i]
     ELSE /\ Len(nodes') = Len(nodes) + 1
          /\ \A i \in 1..Len(nodes) : nodes'[i] = nodes[i]
          /\ MemGetEntity(nodes', in.name).occurrences = <<>>
          /\ MemGetEntity(nodes', in.name).name = in.name

\* C2: merge_entity on an existing name (case-insensitively) changes only that
\* entity's description set; type, display name, occurrences and origin stay, and
\* every other entity and every relationship is unchanged. On a new name it
\* creates the entity with an empty occurrence sequence.
C2_MergeFrame == [][\A in \in MergeInputs : merge_entity(in) => MergeFrame(in)]_storeVars

\* C2 witness: the entity created as "Py" (technology, no origin) was merged again
\* as "py" (person, origin transcript) after it got an occurrence: it holds both
\* descriptions and still shows the first spelling, type and origin.
C2_Witness ==
  /\ supplied[Py].called /\ supplied[py].called
  /\ MemHasEntity(nodes, py)
  /\ LET e == MemGetEntity(nodes, py) IN
       /\ e.name = Py /\ e.type = "technology" /\ e.source = None
       /\ e.descriptions = {"d1", "d2"}
       /\ Len(e.occurrences) = 1
  /\ Len(relationships) = 1

\* the snapshot and reload keep what the claim lists
RoundTripSame ==
  /\ MemGetEntityCount(nodes') = MemGetEntityCount(nodes)
  /\ MemGetRelationshipCount(relationships') = MemGetRelationshipCount(relationships)
  /\ \A i \in 1..Len(nodes) :
       LET e == nodes[i].val
           r == MemGetEntity(nodes', e.name)
       IN /\ r # NoEntity
          /\ r.type = e.type
          /\ r.descriptions = e.descriptions
          /\ r.occurrences = e.occurrences

\* C6: to_dict() followed by the reconstruction of from_json_path keeps the entity
\* count, the relationship count and each entity's type, description set and
\* occurrence sequence.
C6_SnapshotRoundTrip == [][from_json_path => RoundTripSame]_storeVars

\* C6 witness: a reloaded store (the entity first merged as "py" with origin
\* "transcript" has lost its origin, which only the reload does) that holds two
\* entities, two occurrences on one of them and a relationship.
C6_Witness ==
  /\ MemGetEntityCount(nodes) = 2
  /\ MemHasEntity(nodes, py)
  /\ LET e == MemGetEntity(nodes, py) IN
       /\ e.name = py /\ e.source = None
       /\ Len(e.occurrences) = 2
       /\ e.occurrences[1] # e.occurrences[2]
       /\ e.descriptions = {"d1", "d2"}
  /\ MemGetRelationshipCount(relationships) = 1

\* ============================================================ KnowledgeGraph
\* knowledge_graph.py: a graph is self.nodes (a dict, as its items in insertion
\* order) and self.relationships. A node's "descriptions" is a Python set object:
\* the model holds a reference to it, and `heap` maps each reference to the set,
\* so that two nodes holding the same set object are seen to share it.

\* text[:100] + "..." if len(text) > 100 else text
SnippetLimit == 100

Snippet(text) ==
  IF Len(text) > SnippetLimit
  THEN SubSeq(text, 1, SnippetLimit) \o <<".", ".", ".">>
  ELSE text

Hi == <<"h", "i">>
Blank == <<" ">>
LongText == [i \in 1..(SnippetLimit + 1) |-> "x"]

\* str.strip() == ""
IsBlank(text) == \A i \in 1..Len(text) : text[i] = " "

\* " ".join(texts)
RECURSIVE Join(_)
Join(texts) ==
  IF texts = <<>> THEN <<>>
  ELSE IF Len(texts) = 1 THEN texts[1]
  ELSE texts[1] \o <<" ">> \o Join(Tail(texts))

\* --------------------------------------------------- responses of the model
\* A JSON value is a record tagged t: "dict" (with the keys it has as fields),
\* "list" (items), "null"; an item of a list is a record holding the keys it has.

Garbage == [t |-> "garbage"]
JsonNull == [t |-> "null"]
JsonList(items) == [t |-> "list", items |-> items]

\* what pm.chat does for one extraction call: it raises, or returns a text, here
\* a JSON value or garbage, bare, inside a markdown fence, or inside prose; the
\* empty text is also what _chat returns when no provider is configured
KgResponses ==
  { [kind |-> "raise"],
    [kind |-> "text", wrap |-> "blank", body |-> Garbage],
    [kind |-> "text", wrap |-> "bare", body |-> Garbage],
    [kind |-> "text", wrap |-> "bare", body |->
       [t |-> "dict",
        entities |-> JsonList(<< [name |-> Py, type |-> "technology", description |-> "d1"] >>),
        relationships |-> JsonList(<< >>)]],
    [kind |-> "text", wrap |-> "fence", body |->
       [t |-> "dict",
        entities |-> JsonList(<< [name |-> py, type |-> "person", description |-> "d2"],
                                 [name |-> Bo] >>),
        relationships |-> JsonList(<< [source |-> py, target |-> Bo, type |-> "uses"],
                                      [source |-> Py, target |-> Bo],
                                      [source |-> Bo, target |-> Empty, type |-> "knows"] >>)]],
    [kind |-> "text", wrap |-> "prose", body |->
       [t |-> "dict",
        entities |-> JsonList(<< [name |-> Empty, type |-> "concept", description |-> "d2"] >>),
        relationships |-> JsonList(<< [source |-> Empty, target |-> Empty, type |-> "is"] >>)]],
    [kind |-> "text", wrap |-> "bare", body |->
       JsonList(<< [name |-> Empty, description |-> "d1"],
                   [type |-> "person", description |-> "d1"] >>)],
    [kind |-> "text", wrap |-> "bare", body |->
       [t |-> "dict", entities |-> JsonNull, relationships |-> JsonList(<< >>)]] }

\* the first [...] of a JSON text, which strategy 3 tries before the first {...}
FirstArray(body) ==
  IF body.t = "list" THEN body
  ELSE IF body.t = "dict" /\ "entities" \in DOMAIN body /\ body.entities.t = "list"
       THEN body.entities
  ELSE IF body.t = "dict" /\ "relationships" \in DOMAIN body
                          /\ body.relationships.t = "list"
       THEN body.relationships
  ELSE body

\* parse_json_from_response: None for a blank text and for a text that holds no
\* JSON; the value itself for a bare or fenced JSON text; for JSON inside prose,
\* what strategy 3 finds
ParseJsonFromResponse(text) ==
  IF text.wrap = "blank" THEN JsonNull
  ELSE IF text.body.t = "garbage" THEN JsonNull
  ELSE IF text.wrap = "bare" THEN text.body
  ELSE IF text.wrap = "fence" THEN text.body
  ELSE FirstArray(text.body)

\* item.get(key, default)
Get(item, key, default) == IF key \in DOMAIN item THEN item[key] ELSE default

\* Entity(name=item["name"], type=item.get("type", "concept"), descriptions=...)
EntityOf(item) ==
  [name |-> item.name,
   type |-> Get(item, "type", "concept"),
   descriptions |-> IF Get(item, "description", "") = ""
                    THEN <<>> ELSE <<item.description>>]

\* the loop over an entity list: the items that are dicts with a "name"
EntitiesOf(items) ==
  LET named == SelectSeq(items, LAMBDA it : "name" \in DOMAIN it)
  IN [i \in 1..Len(named) |-> EntityOf(named[i])]

\* the loop over a relationship list: the items with "source" and "target"
RelationshipsOf(items) ==
  LET ok == SelectSeq(items, LAMBDA it : "source" \in DOMAIN it /\ "target" \in DOMAIN it)
  IN [i \in 1..Len(ok) |->
        [source |-> ok[i].source, target |-> ok[i].target,
         type |-> Get(ok[i], "type", "related_to")]]

NoExtraction == [raised |-> FALSE, entities |-> <<>>, rels |-> <<>>]
ExtractionRaised == [raised |-> TRUE, entities |-> <<>>, rels |-> <<>>]

\* parsed.get(key, []) of a dict, and whether iterating it raises (null)
ListAt(parsed, key) == IF key \in DOMAIN parsed THEN parsed[key] ELSE JsonList(<<>>)

\* the part of extract_entities_and_relationships that follows the call
ExtractParsed(parsed) ==
  IF parsed.t = "dict"
  THEN IF ListAt(parsed, "entities").t # "list" \/ ListAt(parsed, "relationships").t # "list"
       THEN ExtractionRaised
       ELSE [raised |-> FALSE,
             entities |-> EntitiesOf(ListAt(parsed, "entities").items),
             rels |-> RelationshipsOf(ListAt(parsed, "relationships").items)]
  ELSE IF parsed.t = "list"
  THEN [raised |-> FALSE, entities |-> EntitiesOf(parsed.items), rels |-> <<>>]
  ELSE NoExtraction

\* KnowledgeGraph.extract_entities_and_relationships (with _chat): `raised` when
\* an exception leaves the method
Extract(resp) ==
  IF resp.kind = "raise" THEN ExtractionRaised
  ELSE ExtractParsed(ParseJsonFromResponse(resp))

\* ------------------------------------------------------ KnowledgeGraph state

EmptyGraph == [nodes |-> <<>>, relationships |-> <<>>]

\* the set object created for node `key` of graph g
Ref(g, key) == <<g, key>>

\* bind a reference to a set
HeapSet(h, ref, val) == [r \in (DOMAIN h) \cup {ref} |-> IF r = ref THEN val ELSE h[r]]

\* the references some node still holds (Python frees the other set objects)
LiveRefs(k) ==
  {k.self.nodes[i].val.descriptions : i \in 1..Len(k.self.nodes)}
    \cup {k.other.nodes[i].val.descriptions : i \in 1..Len(k.other.nodes)}

Collect(w) == [kg |-> w.kg, heap |-> [r \in LiveRefs(w.kg) |-> w.heap[r]]]

\* the occurrence record add_content appends
ContentOccurrence(text, source, timestamp) ==
  [source |-> source, timestamp |-> timestamp, text |-> Snippet(text)]

\* add_content, the body of `for entity in entities`
AddEntity(w, g, entity, text, source, timestamp) ==
  LET eid == entity.name
      ns == w.kg[g].nodes
  IN IF HasKey(ns, eid)
     THEN LET n == NodeAt(ns, eid) IN
          [kg |-> [w.kg EXCEPT ![g].nodes = SetNode(ns, eid,
                     [n EXCEPT !.occurrences =
                        Append(@, ContentOccurrence(text, source, timestamp))])],
           heap |-> IF entity.descriptions # <<>>
                    THEN [w.heap EXCEPT ![n.descriptions] = @ \cup Range(entity.descriptions)]
                    ELSE w.heap]
     ELSE [kg |-> [w.kg EXCEPT ![g].nodes = SetNode(ns, eid,
                     [id |-> eid, name |-> entity.name, type |-> entity.type,
                      descriptions |-> Ref(g, eid),
                      occurrences |-> <<ContentOccurrence(text, source, timestamp)>>])],
           heap |-> HeapSet(w.heap, Ref(g, eid), Range(entity.descriptions))]

RECURSIVE AddEntities(_, _, _, _, _, _)
AddEntities(w, g, entities, text, source, timestamp) ==
  IF entities = <<>> THEN w
  ELSE AddEntities(AddEntity(w, g, entities[1], text, source, timestamp),
                   g, Tail(entities), text, source, timestamp)

\* add_content, the body of `for rel in relationships`
AddExtractedRelationship(w, g, rel, source, timestamp) ==
  IF HasKey(w.kg[g].nodes, rel.source) /\ HasKey(w.kg[g].nodes, rel.target)
  THEN [w EXCEPT !.kg[g].relationships = Append(@,
          [source |-> rel.source, target |-> rel.target, type |-> rel.type,
           content_source |-> source, timestamp |-> timestamp])]
  ELSE w

RECURSIVE AddExtractedRelationships(_, _, _, _, _)
AddExtractedRelationships(w, g, rels, source, timestamp) ==
  IF rels = <<>> THEN w
  ELSE AddExtractedRelationships(AddExtractedRelationship(w, g, rels[1], source, timestamp),
                                 g, Tail(rels), source, timestamp)

\* KnowledgeGraph.add_content: the graph afterwards and whether an exception
\* left the method
AddContent(w, g, text, source, timestamp, resp) ==
  LET ex == Extract(resp) IN
  IF ex.raised THEN [w |-> w, raised |-> TRUE]
  ELSE [w |-> AddExtractedRelationships(
                AddEntities(w, g, ex.entities, text, source, timestamp),
                g, ex.rels, source, timestamp),
        raised |-> FALSE]

\* segments.index(x): the first position (from 0) of an equal element
IndexOf(seq, x) == (CHOOSE i \in 1..Len(seq) : seq[i] = x /\ \A j \in 1..(i - 1) : seq[j] # x) - 1

\* f"transcript_batch_{batch_start_idx}"
BatchSource(idx) == "transcript_batch_" \o ToString(idx)

\* f"diagram_{i}", as the source tag and as the node id
DiagramSource(i) == "diagram_" \o ToString(i)
DiagramId(i) == <<"d", "i", "a", "g", "r", "a", "m", "_", ToString(i)>>

\* f"Diagram {i}"
DiagramName(i) == <<"D", "i", "a", "g", "r", "a", "m", " ", ToString(i)>>

SpeakerDescription == "Speaker in transcript"
DiagramDescription == "Visual diagram from video"

\* a registration that files the speaker as a concept
RegisterSpeakerAsConcept(w, g, segment) ==
  IF "speaker" \in DOMAIN segment /\ segment.speaker # <<>>
       /\ ~HasKey(w.kg[g].nodes, segment.speaker)
  THEN [kg |-> [w.kg EXCEPT ![g].nodes = SetNode(@, segment.speaker,
                  [id |-> segment.speaker, name |-> segment.speaker, type |-> "concept",
                   descriptions |-> Ref(g, segment.speaker), occurrences |-> <<>>])],
        heap |-> HeapSet(w.heap, Ref(g, segment.speaker), {SpeakerDescription})]
  ELSE w

\* process_transcript, the body of "Register speakers first"
RegisterSpeaker(w, g, segment) ==
  IF "speaker" \in DOMAIN segment /\ segment.speaker # <<>>
       /\ ~HasKey(w.kg[g].nodes, segment.speaker)
  THEN [kg |-> [w.kg EXCEPT ![g].nodes = SetNode(@, segment.speaker,
                  [id |-> segment.speaker, name |-> segment.speaker, type |-> "person",
                   descriptions |-> Ref(g, segment.speaker), occurrences |-> <<>>])],
        heap |-> HeapSet(w.heap, Ref(g, segment.speaker), {SpeakerDescription})]
  ELSE w

RECURSIVE RegisterSpeakers(_, _, _)
RegisterSpeakers(w, g, segments) ==
  IF segments = <<>> THEN w
  ELSE RegisterSpeakers(RegisterSpeaker(w, g, segments[1]), g, Tail(segments))

\* " ".join(seg["text"] for seg in batch if "text" in seg)
CombinedText(batch) ==
  LET with == SelectSeq(batch, LAMBDA seg : "text" \in DOMAIN seg)
  IN Join([i \in 1..Len(with) |-> with[i].text])

\* process_transcript, the loop over the batches from the one starting at `start`;
\* resps are the responses of the model to the extraction calls still to come
RECURSIVE ProcessBatches(_, _, _, _, _, _)
ProcessBatches(w, g, segments, batch_size, start, resps) ==
  IF start >= Len(segments) THEN [w |-> w, raised |-> FALSE]
  ELSE LET last == IF start + batch_size < Len(segments)
                   THEN start + batch_size ELSE Len(segments)
           batch == SubSeq(segments, start + 1, last)
           combined_text == CombinedText(batch)
       IN IF IsBlank(combined_text)
          THEN ProcessBatches(w, g, segments, batch_size, start + batch_size, resps)
          ELSE LET batch_start_idx == IndexOf(segments, batch[1])
                   r == AddContent(w, g, combined_text, BatchSource(batch_start_idx),
                                   Get(batch[1], "start", None), Head(resps))
               IN IF r.raised THEN r
                  ELSE ProcessBatches(r.w, g, segments, batch_size,
                                      start + batch_size, Tail(resps))

\* KnowledgeGraph.process_transcript
ProcessTranscript(w, g, transcript, batch_size, resps) ==
  IF "segments" \notin DOMAIN transcript THEN [w |-> w, raised |-> FALSE]
  ELSE ProcessBatches(RegisterSpeakers(w, g, transcript.segments), g,
                      transcript.segments, batch_size, 0, resps)

\* the extraction calls the loop of process_transcript issues from the batch
\* starting at `start`, in order: for each add_content call the loop position,
\* the arguments, the nodes of the graph when the call is issued and whether the
\* call raised (which ends the loop)
RECURSIVE BatchCalls(_, _, _, _, _, _)
BatchCalls(w, g, segments, batch_size, start, resps) ==
  IF start >= Len(segments) THEN << >>
  ELSE LET last == IF start + batch_size < Len(segments)
                   THEN start + batch_size ELSE Len(segments)
           batch == SubSeq(segments, start + 1, last)
           combined_text == CombinedText(batch)
       IN IF IsBlank(combined_text)
          THEN BatchCalls(w, g, segments, batch_size, start + batch_size, resps)
          ELSE LET batch_start_idx == IndexOf(segments, batch[1])
                   r == AddContent(w, g, combined_text, BatchSource(batch_start_idx),
                                   Get(batch[1], "start", None), Head(resps))
               IN << [start |-> start, text |-> combined_text,
                      source |-> BatchSource(batch_start_idx),
                      timestamp |-> Get(batch[1], "start", None),
                      nodes |-> w.kg[g].nodes, raised |-> r.raised] >>
                    \o (IF r.raised THEN << >>
                        ELSE BatchCalls(r.w, g, segments, batch_size,
                                        start + batch_size, Tail(resps)))

\* the extraction calls of one process_transcript call
ExtractionCalls(w, g, transcript, batch_size, resps) ==
  IF "segments" \notin DOMAIN transcript THEN << >>
  ELSE BatchCalls(RegisterSpeakers(w, g, transcript.segments), g,
                  transcript.segments, batch_size, 0, resps)

\* process_diagrams, the node created for diagram i when it has none
AddDiagramNode(w, g, i, diagram) ==
  IF HasKey(w.kg[g].nodes, DiagramId(i)) THEN w
  ELSE [kg |-> [w.kg EXCEPT ![g].nodes = SetNode(@, DiagramId(i),
                  [id |-> DiagramId(i), name |-> DiagramName(i), type |-> "diagram",
                   descriptions |-> Ref(g, DiagramId(i)),
                   occurrences |-> << [source |-> DiagramSource(i),
                                       frame_index |-> Get(diagram, "frame_index", None)] >>])],
        heap |-> HeapSet(w.heap, Ref(g, DiagramId(i)), {DiagramDescription})]

\* KnowledgeGraph.process_diagrams, from diagram number i on
RECURSIVE ProcessDiagrams(_, _, _, _, _)
ProcessDiagrams(w, g, diagrams, i, resps) ==
  IF i >= Len(diagrams) THEN [w |-> w, raised |-> FALSE]
  ELSE LET diagram == diagrams[i + 1]
           text_content == Get(diagram, "text_content", <<>>)
       IN IF text_content # <<>>
          THEN LET r == AddContent(w, g, text_content, DiagramSource(i), None, Head(resps))
               IN IF r.raised THEN r
                  ELSE ProcessDiagrams(AddDiagramNode(r.w, g, i, diagram), g, diagrams,
                                       i + 1, Tail(resps))
          ELSE ProcessDiagrams(AddDiagramNode(w, g, i, diagram), g, diagrams, i + 1, resps)

\* merge, the search "for eid in self.nodes": the first key equal case-insensitively
FindExisting(ns, nid) ==
  IF \E i \in 1..Len(ns) : Lower(ns[i].key) = Lower(nid)
  THEN [found |-> TRUE,
        id |-> ns[CHOOSE i \in 1..Len(ns) :
                    /\ Lower(ns[i].key) = Lower(nid)
                    /\ \A j \in 1..(i - 1) : Lower(ns[j].key) # Lower(nid)].key]
  ELSE [found |-> FALSE, id |-> <<>>]

\* merge, the body of `for nid, node in other.nodes.items()`; `if existing_id:`
\* is false for no match and for the match ""
MergeNode(w, nid, node) ==
  LET hit == FindExisting(w.kg.self.nodes, nid) IN
  IF hit.found /\ hit.id # <<>>
  THEN LET existing == NodeAt(w.kg.self.nodes, hit.id) IN
       [kg |-> [w.kg EXCEPT !.self.nodes = SetNode(@, hit.id,
                  [existing EXCEPT !.occurrences = @ \o node.occurrences])],
        heap |-> [w.heap EXCEPT ![existing.descriptions] = @ \cup w.heap[node.descriptions]]]
  ELSE [kg |-> [w.kg EXCEPT !.self.nodes = SetNode(@, nid,
                  [id |-> nid, name |-> node.name, type |-> node.type,
                   descriptions |-> node.descriptions,
                   occurrences |-> node.occurrences])],
        heap |-> w.heap]

RECURSIVE MergeNodes(_, _)
MergeNodes(w, items) ==
  IF items = <<>> THEN w
  ELSE MergeNodes(MergeNode(w, items[1].key, items[1].val), Tail(items))

\* KnowledgeGraph.merge that skips the relationships the destination already holds.
MergeDedupRelationships(w) ==
  LET m == MergeNodes(w, w.kg.other.nodes)
      have == Range(w.kg.self.relationships)
  IN [m EXCEPT !.kg.self.relationships =
        @ \o SelectSeq(w.kg.other.relationships, LAMBDA r : r \notin have)]

\* KnowledgeGraph.merge of kg.other into kg.self
Merge(w) ==
  LET m == MergeNodes(w, w.kg.other.nodes)
  IN [m EXCEPT !.kg.self.relationships = @ \o w.kg.other.relationships]

\* ---------------------------------------------------- KnowledgeGraph actions

\* arguments of add_content the model draws from
ContentInputs ==
  { [text |-> Hi, source |-> "v1", timestamp |-> "0.0"],
    [text |-> LongText, source |-> "v2", timestamp |-> None] }

\* transcripts the model draws from: one without segments, one whose two first
\* segments are equal and whose last has a blank text
Transcripts ==
  { [text |-> Hi],
    [segments |-> << [speaker |-> Bo, text |-> Hi, start |-> "0.0"],
                     [speaker |-> Bo, text |-> Hi, start |-> "0.0"],
                     [speaker |-> py, text |-> Blank] >>] }

BatchSizes == {1, 2}

\* responses of the model to the extraction calls of one process_transcript or
\* process_diagrams call
BatchResponses ==
  { r \in KgResponses : r.kind = "raise" \/ (r.wrap = "fence" /\ r.body.t = "dict") }

\* diagram lists the model draws from
DiagramInputs ==
  { << [text_content |-> Hi, frame_index |-> "3"], [frame_index |-> "7"] >> }

NoResponse == [kind |-> "none"]

KgInit ==
  /\ kg = [self |-> EmptyGraph, other |-> EmptyGraph]
  /\ heap = <<>>
  /\ call = [op |-> "init", g |-> "self", resp |-> NoResponse, raised |-> FALSE,
             changed |-> FALSE, added |-> 0]
  /\ ncalls = 0
  /\ otherMerged = FALSE
  /\ pureMerges = 0

World == [kg |-> kg, heap |-> heap]

\* the history of a call on graph g that is not a merge
Touched(g) ==
  /\ otherMerged' = IF g = "other" THEN FALSE ELSE otherMerged
  /\ pureMerges' = IF g = "self" \/ pureMerges > 0 THEN -1 ELSE pureMerges

\* the state and the history after a call that ended in r
Ended(op, g, resp, r) ==
  LET w == Collect(r.w) IN
  /\ kg' = w.kg
  /\ heap' = w.heap
  /\ call' = [op |-> op, g |-> g, resp |-> resp, raised |-> r.raised,
              changed |-> (w.kg # kg \/ w.heap # heap),
              added |-> Len(w.kg[g].relationships) - Len(kg[g].relationships)]
  /\ ncalls' = ncalls + 1

\* g.add_content(c.text, c.source, c.timestamp), the model answering resp
add_content(g, c, resp) ==
  /\ ncalls < MaxKgCalls
  /\ Ended("add_content", g, resp, AddContent(World, g, c.text, c.source, c.timestamp, resp))
  /\ Touched(g)

\* self.process_transcript(t, batch_size), the model answering resps in turn
process_transcript(t, batch_size, resps) ==
  /\ ncalls < MaxKgCalls
  /\ Ended("process_transcript", "self", NoResponse,
           ProcessTranscript(World, "self", t, batch_size, resps))
  /\ Touched("self")

\* self.process_diagrams(diagrams), the model answering resps in turn
process_diagrams(diagrams, resps) ==
  /\ ncalls < MaxKgCalls
  /\ Ended("process_diagrams", "self", NoResponse,
           ProcessDiagrams(World, "self", diagrams, 0, resps))
  /\ Touched("self")

\* self.merge(other)
merge ==
  /\ ncalls < MaxKgCalls
  /\ Ended("merge", "self", NoResponse, [w |-> Merge(World), raised |-> FALSE])
  /\ otherMerged' = TRUE
  /\ pureMerges' = IF pureMerges >= 0 THEN pureMerges + 1 ELSE -1

KgNext ==
  \/ \E g \in {"self", "other"}, c \in ContentInputs, resp \in KgResponses :
       add_content(g, c, resp)
  \/ \E t \in Transcripts, batch_size \in BatchSizes, resps \in [1..2 -> BatchResponses] :
       process_transcript(t, batch_size, resps)
  \/ \E diagrams \in DiagramInputs, resp \in BatchResponses :
       process_diagrams(diagrams, <<resp>>)
  \/ merge

\* ========================================================== GraphQueryEngine
\* graph_query.py: the engine over the in-process store (nodes, relationships).

\* further JSON values: a string (its characters), a number, a boolean; the
\* items of a list in a query plan are JSON values
JsonStr(s) == [t |-> "str", s |-> s]
JsonNum(n) == [t |-> "num", n |-> n]
JsonBool(b) == [t |-> "bool", b |-> b]

\* the characters of a word
Chars(word) == [i \in 1..Len(word) |-> SubSeq(word, i, i)]

Str(word) == JsonStr(Chars(word))

\* value == "word"
IsWord(value, word) == value.t = "str" /\ value.s = Chars(word)

\* bool(value)
Truthy(value) ==
  CASE value.t = "null" -> FALSE
    [] value.t = "str" -> value.s # <<>>
    [] value.t = "num" -> value.n # 0
    [] value.t = "bool" -> value.b
    [] value.t = "list" -> value.items # <<>>
    [] value.t = "dict" -> DOMAIN value # {"t"}

\* a in b, for two strings
IsSub(a, b) == \E i \in 0..(Len(b) - Len(a)) : SubSeq(b, i + 1, i + Len(a)) = a

\* "word" in value raises TypeError: the value is not iterable
InRaises(value) == value.t \in {"num", "bool", "null"}

\* "word" in value
In(word, value) ==
  CASE value.t = "dict" -> word \in DOMAIN value
    [] value.t = "list" -> \E i \in 1..Len(value.items) : IsWord(value.items[i], word)
    [] value.t = "str" -> IsSub(Chars(word), value.s)

\* value["word"] raises TypeError: the value is a list or a string
SubscriptRaises(value) == value.t # "dict"

\* str.strip() of a text
RECURSIVE StripLeft(_)
StripLeft(text) ==
  IF Len(text) > 0 /\ SubSeq(text, 1, 1) = " " THEN StripLeft(Tail(text)) ELSE text

RECURSIVE StripRight(_)
StripRight(text) ==
  IF Len(text) > 0 /\ SubSeq(text, Len(text), Len(text)) = " "
  THEN StripRight(SubSeq(text, 1, Len(text) - 1))
  ELSE text

Strip(text) == StripRight(StripLeft(text))

\* ------------------------------------------------------------- direct mode

\* limit: int = 50
DefaultLimit == 50

QueryResult(data, query_type, raw_query, explanation) ==
  [data |-> data, query_type |-> query_type, raw_query |-> raw_query,
   explanation |-> explanation]

\* a direct-mode call that an exception left
Raised == [raised |-> TRUE]

Returned(result) == [raised |-> FALSE, result |-> result]

\* a loop of entities() that compares the names as they are written
EntitiesLoopCaseSensitive(all_entities, name, entity_type, limit, results) ==
  LET kept == SelectSeq(all_entities,
                LAMBDA e : /\ (Truthy(name) => IsSub(name.s, e.name))
                           /\ (Truthy(entity_type) =>
                                 Lower(entity_type.s) = Lower(Chars(e.type))))
  IN [raised |-> FALSE,
      results |-> IF Len(kept) > limit /\ limit > 0 THEN SubSeq(kept, 1, limit) ELSE kept]

\* the loop of entities(): name.lower() and entity_type.lower() raise
\* AttributeError when the argument is truthy and not a string
RECURSIVE EntitiesLoop(_, _, _, _, _)
EntitiesLoop(all_entities, name, entity_type, limit, results) ==
  IF all_entities = <<>> THEN [raised |-> FALSE, results |-> results]
  ELSE LET e == all_entities[1]
           rest == Tail(all_entities)
       IN IF Truthy(name) /\ name.t # "str" THEN [raised |-> TRUE, results |-> results]
          ELSE IF Truthy(name) /\ ~IsSub(Lower(name.s), Lower(e.name))
          THEN EntitiesLoop(rest, name, entity_type, limit, results)
          ELSE IF Truthy(entity_type) /\ entity_type.t # "str"
          THEN [raised |-> TRUE, results |-> results]
          ELSE IF Truthy(entity_type) /\ Lower(entity_type.s) # Lower(Chars(e.type))
          THEN EntitiesLoop(rest, name, entity_type, limit, results)
          ELSE IF Len(results) + 1 >= limit
          THEN [raised |-> FALSE, results |-> Append(results, e)]
          ELSE EntitiesLoop(rest, name, entity_type, limit, Append(results, e))

\* GraphQueryEngine.entities
Entities(ns, name, entity_type, limit) ==
  LET r == EntitiesLoop(MemGetAllEntities(ns), name, entity_type, limit, <<>>) IN
  IF r.raised THEN Raised
  ELSE Returned(QueryResult(JsonList(r.results), "filter",
         [call |-> "entities", name |-> name, entity_type |-> entity_type, limit |-> limit],
         [msg |-> "Found entities", n |-> Len(r.results)]))

\* the loop of relationships()
RECURSIVE RelationshipsLoop(_, _, _, _, _, _)
RelationshipsLoop(all_rels, source, target, rel_type, limit, results) ==
  IF all_rels = <<>> THEN [raised |-> FALSE, results |-> results]
  ELSE LET r == all_rels[1]
           rest == Tail(all_rels)
       IN IF Truthy(source) /\ source.t # "str" THEN [raised |-> TRUE, results |-> results]
          ELSE IF Truthy(source) /\ ~IsSub(Lower(source.s), Lower(r.source))
          THEN RelationshipsLoop(rest, source, target, rel_type, limit, results)
          ELSE IF Truthy(target) /\ target.t # "str"
          THEN [raised |-> TRUE, results |-> results]
          ELSE IF Truthy(target) /\ ~IsSub(Lower(target.s), Lower(r.target))
          THEN RelationshipsLoop(rest, source, target, rel_type, limit, results)
          ELSE IF Truthy(rel_type) /\ rel_type.t # "str"
          THEN [raised |-> TRUE, results |-> results]
          ELSE IF Truthy(rel_type) /\ ~IsSub(Lower(rel_type.s), Lower(Chars(r.type)))
          THEN RelationshipsLoop(rest, source, target, rel_type, limit, results)
          ELSE IF Len(results) + 1 >= limit
          THEN [raised |-> FALSE, results |-> Append(results, r)]
          ELSE RelationshipsLoop(rest, source, target, rel_type, limit, Append(results, r))

\* GraphQueryEngine.relationships
Relationships(rels, source, target, rel_type, limit) ==
  LET r == RelationshipsLoop(MemGetAllRelationships(rels), source, target, rel_type,
                             limit, <<>>) IN
  IF r.raised THEN Raised
  ELSE Returned(QueryResult(JsonList(r.results), "filter",
         [call |-> "relationships", source |-> source, target |-> target,
          rel_type |-> rel_type],
         [msg |-> "Found relationships", n |-> Len(r.results)]))

\* a visit that goes no further through a name that has no entity
VisitSkipsDangling(st, ns, n) ==
  IF n \in st.visited THEN st
  ELSE IF MemGetEntity(ns, n) = NoEntity
  THEN [st EXCEPT !.visited = @ \cup {n}]
  ELSE [st EXCEPT !.visited = @ \cup {n},
                  !.next_frontier = @ \cup {n},
                  !.result_entities = Append(@, MemGetEntity(ns, n))]

\* the body of `for n in (src_lower, tgt_lower)` in neighbors()
Visit(st, ns, n) ==
  IF n \in st.visited THEN st
  ELSE [st EXCEPT !.visited = @ \cup {n},
                  !.next_frontier = @ \cup {n},
                  !.result_entities =
                     IF MemGetEntity(ns, n) # NoEntity
                     THEN Append(@, MemGetEntity(ns, n)) ELSE @]

\* `for rel in all_rels` in neighbors(): one scan of the relationship list
RECURSIVE ScanRels(_, _, _)
ScanRels(st, ns, all_rels) ==
  IF all_rels = <<>> THEN st
  ELSE LET rel == all_rels[1]
           src_lower == Lower(rel.source)
           tgt_lower == Lower(rel.target)
       IN IF src_lower \in st.frontier \/ tgt_lower \in st.frontier
          THEN ScanRels(Visit(Visit([st EXCEPT !.result_rels = Append(@, rel)],
                                    ns, src_lower), ns, tgt_lower),
                        ns, Tail(all_rels))
          ELSE ScanRels(st, ns, Tail(all_rels))

\* `for _ in range(depth)` in neighbors()
RECURSIVE Hops(_, _, _, _)
Hops(st, ns, all_rels, depth) ==
  IF depth <= 0 THEN st
  ELSE LET scanned == ScanRels([st EXCEPT !.next_frontier = {}], ns, all_rels)
       IN Hops([scanned EXCEPT !.frontier = scanned.next_frontier], ns, all_rels, depth - 1)

\* range(depth) raises TypeError unless depth is an integer (a bool is one)
RangeRaises(depth) == depth.t \notin {"num", "bool"}

RangeLen(depth) == IF depth.t = "num" THEN depth.n ELSE IF depth.b THEN 1 ELSE 0

\* GraphQueryEngine.neighbors: store.get_entity(entity_name) raises
\* AttributeError (entity_name.lower()) unless entity_name is a string
Neighbors(ns, rels, entity_name, depth) ==
  LET raw == [call |-> "neighbors", entity_name |-> entity_name, depth |-> depth] IN
  IF entity_name.t # "str" THEN Raised
  ELSE IF MemGetEntity(ns, entity_name.s) = NoEntity
  THEN Returned(QueryResult(JsonList(<<>>), "filter", raw,
                            [msg |-> "Entity not found", name |-> entity_name]))
  ELSE IF RangeRaises(depth) THEN Raised
  ELSE LET st == Hops([visited |-> {Lower(entity_name.s)},
                       result_entities |-> <<MemGetEntity(ns, entity_name.s)>>,
                       result_rels |-> <<>>,
                       frontier |-> {Lower(entity_name.s)},
                       next_frontier |-> {}],
                      ns, MemGetAllRelationships(rels), RangeLen(depth))
       IN Returned(QueryResult(JsonList(st.result_entities \o st.result_rels), "filter", raw,
                     [msg |-> "Found entities and relationships",
                      entities |-> Len(st.result_entities),
                      relationships |-> Len(st.result_rels)]))

\* GraphQueryEngine.stats
Stats(ns, rels) ==
  LET all_entities == MemGetAllEntities(ns)
      types == {all_entities[i].type : i \in 1..Len(all_entities)}
      type_breakdown ==
        [ty \in types |-> Cardinality({i \in 1..Len(all_entities) : all_entities[i].type = ty})]
  IN Returned(QueryResult(
       [t |-> "dict", entity_count |-> MemGetEntityCount(ns),
        relationship_count |-> MemGetRelationshipCount(rels),
        entity_types |-> type_breakdown],
       "filter", [call |-> "stats"], [msg |-> "Knowledge graph statistics"]))

\* InMemoryStore.raw_query: the GraphStore default, which raises
\* NotImplementedError
NotImplementedError == "NotImplementedError"

\* a raw_query that answers with an empty list of rows
MemRawQueryEmpty(query_string) == Returned([t |-> "list", items |-> << >>])

MemRawQuery(query_string) == [raised |-> TRUE, error |-> NotImplementedError]

\* GraphQueryEngine.cypher on the in-process store: the exception of raw_query
\* leaves the method, a returned value is wrapped in a QueryResult
Cypher(query) ==
  LET result == MemRawQuery(query) IN
  IF result.raised THEN result
  ELSE Returned(QueryResult(result.result, "cypher", query,
                            [msg |-> "Cypher query returned rows",
                             rows |-> IF result.result.t = "list"
                                      THEN Len(result.result.items) ELSE 1]))

\* ------------------------------------------------------------ agentic mode

Question == "q"

\* what pm.chat does for the planning call: it raises, or returns a text, here
\* a JSON value or free text, bare, inside a markdown fence, or inside prose
PlanResponses ==
  { [kind |-> "raise"],
    [kind |-> "text", wrap |-> "bare", body |-> Garbage],
    [kind |-> "text", wrap |-> "bare", body |-> [t |-> "dict", action |-> Str("entities")]],
    [kind |-> "text", wrap |-> "bare", body |->
       [t |-> "dict", action |-> Str("entities"), name |-> Str("P"),
        entity_type |-> Str("Technology")]],
    [kind |-> "text", wrap |-> "bare", body |->
       [t |-> "dict", action |-> Str("entities"), name |-> JsonNum(5)]],
    [kind |-> "text", wrap |-> "fence", body |->
       [t |-> "dict", action |-> Str("relationships"), source |-> Str("bo"),
        rel_type |-> JsonNull]],
    [kind |-> "text", wrap |-> "bare", body |->
       [t |-> "dict", action |-> Str("neighbors"), entity_name |-> Str("py")]],
    [kind |-> "text", wrap |-> "bare", body |-> [t |-> "dict", action |-> Str("neighbors")]],
    [kind |-> "text", wrap |-> "bare", body |->
       [t |-> "dict", action |-> Str("neighbors"), entity_name |-> Str("Bo"),
        depth |-> Str("2")]],
    [kind |-> "text", wrap |-> "bare", body |-> [t |-> "dict", action |-> Str("stats")]],
    [kind |-> "text", wrap |-> "prose", body |-> [t |-> "dict", action |-> Str("stats")]],
    [kind |-> "text", wrap |-> "bare", body |->
       [t |-> "dict", action |-> Str("cypher"), query |-> Str("MATCH (n) DETACH DELETE n")]],
    [kind |-> "text", wrap |-> "bare", body |->
       [t |-> "dict", action |-> Str("raw_query"), query |-> Str("MATCH (n) RETURN n")]],
    [kind |-> "text", wrap |-> "bare", body |-> [t |-> "dict", action |-> Str("Stats")]],
    [kind |-> "text", wrap |-> "bare", body |-> [t |-> "dict", action |-> JsonNull]],
    [kind |-> "text", wrap |-> "bare", body |->
       [t |-> "dict", action |-> JsonList(<<Str("stats")>>)]],
    [kind |-> "text", wrap |-> "bare", body |-> [t |-> "dict"]],
    [kind |-> "text", wrap |-> "bare", body |-> [t |-> "dict", name |-> Str("P")]],
    [kind |-> "text", wrap |-> "bare", body |-> JsonList(<<>>)],
    [kind |-> "text", wrap |-> "bare", body |-> JsonList(<<Str("stats")>>)],
    [kind |-> "text", wrap |-> "bare", body |-> JsonList(<<Str("action")>>)],
    [kind |-> "text", wrap |-> "prose", body |-> JsonList(<<Str("action")>>)],
    [kind |-> "text", wrap |-> "bare", body |-> Str("stats")],
    [kind |-> "text", wrap |-> "bare", body |-> Str("the action is stats")],
    [kind |-> "text", wrap |-> "bare", body |-> JsonNum(0)],
    [kind |-> "text", wrap |-> "bare", body |-> JsonNum(5)],
    [kind |-> "text", wrap |-> "bare", body |-> JsonBool(TRUE)],
    [kind |-> "text", wrap |-> "bare", body |-> JsonBool(FALSE)],
    [kind |-> "text", wrap |-> "bare", body |-> JsonNull] }
  \cup { [kind |-> "text", wrap |-> "prose", body |->
            [t |-> "dict", action |-> Str("neighbors"), entity_name |-> Str("py"),
             depth |-> JsonNum(d)]] : d \in 0..MaxDepth }

\* what pm.chat does for the synthesis call
SynthResponses == { [kind |-> "raise"], [kind |-> "text", text |-> " It is. "] }

\* _parse_json: json.loads of the stripped text, any JSON value; failing that,
\* json.loads of the text from its first "{" to its last "}"; failing that, None
ParseJson(text) ==
  IF text.body.t = "garbage" THEN JsonNull
  ELSE IF text.wrap = "bare" THEN text.body
  ELSE IF text.body.t = "dict" THEN text.body
  ELSE JsonNull

\* plan.get(key) and plan.get(key, default)
PlanGet(plan, key, default) == IF key \in DOMAIN plan THEN plan[key] ELSE default

\* what the dispatch of ask() comes to: the result of a direct-mode call, or
\* "failed" when the call raised, or "unknown"; calls are the methods it ran
Dispatched(method, r) ==
  IF r.raised THEN [kind |-> "failed", calls |-> <<method>>]
  ELSE [kind |-> "result", calls |-> <<method>>, result |-> r.result]

\* a dispatch that hands every other action to cypher(), and so to raw_query()
ExecuteOrCypher(ns, rels, plan) ==
  LET action == plan.action IN
  IF IsWord(action, "entities")
  THEN Dispatched("entities", Entities(ns, PlanGet(plan, "name", JsonNull),
                                       PlanGet(plan, "entity_type", JsonNull), DefaultLimit))
  ELSE IF IsWord(action, "relationships")
  THEN Dispatched("relationships",
                  Relationships(rels, PlanGet(plan, "source", JsonNull),
                                PlanGet(plan, "target", JsonNull),
                                PlanGet(plan, "rel_type", JsonNull), DefaultLimit))
  ELSE IF IsWord(action, "neighbors")
  THEN Dispatched("neighbors",
                  Neighbors(ns, rels, PlanGet(plan, "entity_name", Str("")),
                            PlanGet(plan, "depth", JsonNum(1))))
  ELSE IF IsWord(action, "stats")
  THEN Dispatched("stats", Stats(ns, rels))
  ELSE [kind |-> "failed", calls |-> <<"cypher", "raw_query">>]

\* step 2 of ask(): the if/elif chain on plan["action"], inside its try
Execute(ns, rels, plan) ==
  LET action == plan.action IN
  IF IsWord(action, "entities")
  THEN Dispatched("entities", Entities(ns, PlanGet(plan, "name", JsonNull),
                                       PlanGet(plan, "entity_type", JsonNull), DefaultLimit))
  ELSE IF IsWord(action, "relationships")
  THEN Dispatched("relationships",
                  Relationships(rels, PlanGet(plan, "source", JsonNull),
                                PlanGet(plan, "target", JsonNull),
                                PlanGet(plan, "rel_type", JsonNull), DefaultLimit))
  ELSE IF IsWord(action, "neighbors")
  THEN Dispatched("neighbors",
                  Neighbors(ns, rels, PlanGet(plan, "entity_name", Str("")),
                            PlanGet(plan, "depth", JsonNum(1))))
  ELSE IF IsWord(action, "stats")
  THEN Dispatched("stats", Stats(ns, rels))
  ELSE [kind |-> "unknown", calls |-> <<>>]

\* a QueryResult of ask() that carries no data
NoData(explanation) == QueryResult(JsonNull, "agentic", Question, explanation)

\* how a call of ask() ended: with an exception or with a result, after calls
AskRaised(calls) == [raised |-> TRUE, calls |-> calls]

AskReturned(calls, result) == [raised |-> FALSE, calls |-> calls, result |-> result]

\* a step 3 of ask() that returns no data when the synthesis call fails
SynthesizeDropsData(calls, result, synth) ==
  IF synth.kind = "raise"
  THEN AskReturned(Append(calls, "chat"),
         NoData([msg |-> "LLM synthesis failed, showing raw results"]))
  ELSE AskReturned(Append(calls, "chat"),
         QueryResult(result.data, "agentic", Question,
                     [msg |-> "answer", text |-> Strip(synth.text)]))

\* step 3 of ask(): the synthesis call on the result of the dispatch
Synthesize(calls, result, synth) ==
  IF synth.kind = "raise"
  THEN AskReturned(Append(calls, "chat"),
         [result EXCEPT !.query_type = "agentic",
                        !.explanation = [msg |-> "LLM synthesis failed, showing raw results"]])
  ELSE AskReturned(Append(calls, "chat"),
         QueryResult(result.data, "agentic", Question,
                     [msg |-> "answer", text |-> Strip(synth.text)]))

\* GraphQueryEngine.ask: the statements that follow the planning call
AskPlanned(ns, rels, calls, plan, synth) ==
  IF ~Truthy(plan) THEN AskReturned(calls, NoData([msg |-> "Could not parse LLM query plan"]))
  ELSE IF InRaises(plan) THEN AskRaised(calls)
  ELSE IF ~In("action", plan)
  THEN AskReturned(calls, NoData([msg |-> "Could not parse LLM query plan"]))
  ELSE IF SubscriptRaises(plan) THEN AskRaised(calls)
  ELSE LET done == Execute(ns, rels, plan) IN
       IF done.kind = "unknown"
       THEN AskReturned(calls \o done.calls,
                        NoData([msg |-> "Unknown action in plan", action |-> plan.action]))
       ELSE IF done.kind = "failed"
       THEN AskReturned(calls \o done.calls, NoData([msg |-> "Action execution failed"]))
       ELSE Synthesize(calls \o done.calls, done.result, synth)

\* GraphQueryEngine.ask(question): stats() for the prompt, the planning call,
\* the dispatch, the synthesis call
Ask(ns, rels, has_pm, planned, synth) ==
  IF ~has_pm
  THEN AskReturned(<<>>, NoData([msg |-> "Agentic mode requires a configured LLM provider"]))
  ELSE IF planned.kind = "raise"
  THEN AskReturned(<<"stats", "chat">>, NoData([msg |-> "LLM query planning failed"]))
  ELSE AskPlanned(ns, rels, <<"stats", "chat">>, ParseJson(planned), synth)

\* ------------------------------------------------------ query engine actions

\* stores the engine is constructed over: a script of contract calls
StoreScripts ==
  { << >>,
    << [op |-> "merge_entity", in |->
          [name |-> Py, type |-> "technology", descriptions |-> <<"d1">>, source |-> None]],
       [op |-> "merge_entity", in |->
          [name |-> Bo, type |-> "person", descriptions |-> <<>>, source |-> None]],
       [op |-> "add_relationship", r |->
          [source |-> Py, target |-> Bo, type |-> "uses", content_source |-> "v1",
           timestamp |-> "0.0"]] >>,
    << [op |-> "merge_entity", in |->
          [name |-> Py, type |-> "technology", descriptions |-> <<"d1">>, source |-> None]],
       [op |-> "merge_entity", in |->
          [name |-> Bo, type |-> "person", descriptions |-> <<"d2">>, source |-> None]],
       [op |-> "merge_entity", in |->
          [name |-> Bob, type |-> "person", descriptions |-> <<>>, source |-> None]],
       [op |-> "add_relationship", r |->
          [source |-> py, target |-> Bo, type |-> "uses", content_source |-> None,
           timestamp |-> None]],
       [op |-> "add_relationship", r |->
          [source |-> Bo, target |-> Bob, type |-> "knows", content_source |-> None,
           timestamp |-> None]],
       [op |-> "add_relationship", r |->
          [source |-> Bob, target |-> Empty, type |-> "uses", content_source |-> None,
           timestamp |-> None]] >>,
    << [op |-> "merge_entity", in |->
          [name |-> Py, type |-> "technology", descriptions |-> <<>>, source |-> None]],
       [op |-> "merge_entity", in |->
          [name |-> Bob, type |-> "person", descriptions |-> <<>>, source |-> None]],
       [op |-> "add_relationship", r |->
          [source |-> Bo, target |-> Bob, type |-> "knows", content_source |-> None,
           timestamp |-> None]],
       [op |-> "add_relationship", r |->
          [source |-> Py, target |-> Bo, type |-> "uses", content_source |-> None,
           timestamp |-> None]] >>,
    << [op |-> "merge_entity", in |->
          [name |-> Python, type |-> "technology", descriptions |-> <<"d1">>, source |-> None]],
       [op |-> "merge_entity", in |->
          [name |-> Django, type |-> "technology", descriptions |-> <<>>, source |-> None]],
       [op |-> "merge_entity", in |->
          [name |-> Alice, type |-> "person", descriptions |-> <<>>, source |-> None]],
       [op |-> "merge_entity", in |->
          [name |-> Bob, type |-> "person", descriptions |-> <<>>, source |-> None]],
       [op |-> "add_relationship", r |->
          [source |-> Alice, target |-> Python, type |-> "uses", content_source |-> None,
           timestamp |-> None]],
       [op |-> "add_relationship", r |->
          [source |-> Alice, target |-> Bob, type |-> "works_with", content_source |-> None,
           timestamp |-> None]],
       [op |-> "add_relationship", r |->
          [source |-> Django, target |-> Python, type |-> "built_on", content_source |-> None,
           timestamp |-> None]] >> }

\* the stores after a script of contract calls, from the empty ones
RECURSIVE Populated(_, _)
Populated(st, script) ==
  IF script = <<>> THEN st
  ELSE LET c == script[1] IN
       IF c.op = "merge_entity"
       THEN Populated(
              [st EXCEPT
                 !.nodes = MemMergeEntity(@, c.in.name, c.in.type, c.in.descriptions,
                                          c.in.source),
                 !.graph = FdbMergeEntity(@, c.in.name, c.in.type, c.in.descriptions,
                                          c.in.source),
                 !.supplied = [@ EXCEPT ![c.in.name] =
                                 [called |-> TRUE,
                                  descs |-> @.descs \cup Range(c.in.descriptions)]]],
              Tail(script))
       ELSE Populated(
              [st EXCEPT
                 !.relationships = MemAddRelationship(@, c.r.source, c.r.target, c.r.type,
                                                      c.r.content_source, c.r.timestamp),
                 !.graph = FdbAddRelationship(@, c.r.source, c.r.target, c.r.type,
                                              c.r.content_source, c.r.timestamp)],
              Tail(script))

NoAnswer == [asked |-> FALSE]

NoQuery == [method |-> "none"]

\* no engine: the state of the query engine in the runs that do not use it
NoEngine ==
  /\ pm = FALSE
  /\ answer = NoAnswer
  /\ lastQuery = NoQuery

\* both stores after one of the scripts
StorePopulated ==
  \E script \in StoreScripts :
       LET st == Populated([nodes |-> <<>>, relationships |-> <<>>,
                            graph |-> [ents |-> <<>>, occs |-> <<>>, edges |-> <<>>],
                            supplied |-> NoSupply], script)
       IN /\ nodes = st.nodes
          /\ relationships = st.relationships
          /\ graph = st.graph
          /\ supplied = st.supplied

\* GraphQueryEngine(store, provider_manager) over a populated store
GraphQueryEngineInit ==
  /\ StorePopulated
  /\ pm \in BOOLEAN
  /\ answer = NoAnswer
  /\ lastQuery = NoQuery

\* engine.ask(Question), the model answering planned, then synth
ask(planned, synth) ==
  /\ answer' = [asked |-> TRUE, planned |-> planned, synth |-> synth,
                outcome |-> Ask(nodes, relationships, pm, planned, synth)]
  /\ pm' = pm
  /\ lastQuery' = lastQuery

AskNext == \E planned \in PlanResponses, synth \in SynthResponses : ask(planned, synth)

\* arguments of the direct-mode calls
NameFilters == {JsonNull, Str(""), Str("B"), Str("bo"), Str("ali"), Str("y"), Str("x")}
TypeFilters == {JsonNull, Str(""), Str("Person"), Str("technology")}
SourceFilters == {JsonNull, Str("PY"), Str("bo"), Str("ali")}
TargetFilters == {JsonNull, Str("b")}
RelTypeFilters == {JsonNull, Str("USE")}
Limits == (0..MaxLimit) \cup {DefaultLimit}
Depths == {JsonNum(d) : d \in 0..MaxDepth}

\* engine.entities(name, entity_type, limit)
entities(name, entity_type, limit) ==
  /\ lastQuery' = [method |-> "entities",
                   args |-> [name |-> name, entity_type |-> entity_type, limit |-> limit],
                   outcome |-> Entities(nodes, name, entity_type, limit)]
  /\ UNCHANGED <<pm, answer>>

\* engine.relationships(source, target, rel_type, limit)
relationships_(source, target, rel_type, limit) ==
  /\ lastQuery' = [method |-> "relationships",
                   args |-> [source |-> source, target |-> target, rel_type |-> rel_type,
                             limit |-> limit],
                   outcome |-> Relationships(relationships, source, target, rel_type, limit)]
  /\ UNCHANGED <<pm, answer>>

\* engine.neighbors(entity_name, depth)
neighbors(entity_name, depth) ==
  /\ lastQuery' = [method |-> "neighbors",
                   args |-> [entity_name |-> entity_name, depth |-> depth],
                   outcome |-> Neighbors(nodes, relationships, entity_name, depth)]
  /\ UNCHANGED <<pm, answer>>

\* engine.stats()
stats ==
  /\ lastQuery' = [method |-> "stats", args |-> <<>>, outcome |-> Stats(nodes, relationships)]
  /\ UNCHANGED <<pm, answer>>

\* query strings of raw_query and cypher
QueryStrings == {"MATCH (n) RETURN n", "MATCH (n) DETACH DELETE n", ""}

\* engine.cypher(query) on an engine over the in-process store
cypher(query_string) ==
  /\ lastQuery' = [method |-> "cypher", args |-> [query |-> query_string],
                   outcome |-> Cypher(query_string)]
  /\ UNCHANGED <<pm, answer>>

\* store.raw_query(query_string) on the in-process store
raw_query(query_string) ==
  /\ lastQuery' = [method |-> "raw_query", args |-> [query_string |-> query_string],
                   outcome |-> MemRawQuery(query_string)]
  /\ UNCHANGED <<pm, answer>>

QueryNext ==
  \/ \E name \in NameFilters, entity_type \in TypeFilters, limit \in Limits :
       entities(name, entity_type, limit)
  \/ \E source \in SourceFilters, target \in TargetFilters, rel_type \in RelTypeFilters,
        limit \in Limits :
       relationships_(source, target, rel_type, limit)
  \/ \E name \in Names, depth \in Depths : neighbors(JsonStr(name), depth)
  \/ stats
  \/ \E query_string \in QueryStrings : cypher(query_string)
  \/ \E query_string \in QueryStrings : raw_query(query_string)

\* ------------------------------------------ store calls on a populated store

\* arguments of add_typed_relationship
TypedInputs ==
  { [source |-> ends[1], target |-> ends[2], edge_label |-> edge_label,
     properties |-> properties] :
      ends \in {<<Py, Bo>>, <<py, Bob>>},
      edge_label \in {"DEPENDS_ON", "OCCURRED_IN"},
      properties \in { << >>, << [k |-> "weight", v |-> "1"] >>,
                       << [k |-> "dag_id", v |-> "x"] >> } }

\* arguments of set_entity_properties
PropertyInputs ==
  { [name |-> name, properties |-> properties] :
      name \in {py, Alice, Bo},
      properties \in { << >>, << [k |-> "weight", v |-> "1"] >>,
                       << [k |-> "dag_id", v |-> "x"] >> } }
    \cup { [name |-> py, properties |-> << [k |-> "name", v |-> Bob] >>] }

\* arguments of has_relationship
HasRelationshipInputs ==
  { [source |-> ends[1], target |-> ends[2], edge_label |-> edge_label] :
      ends \in {<<Py, Bo>>, <<py, Bob>>, <<Bo, Py>>},
      edge_label \in {None, "", "uses", "knows", "DEPENDS_ON"} }

NoStoreCall ==
  /\ storeCall = [op |-> "none"]
  /\ nstore = 0

\* the history of one store call: the texts the graph-database backend sent and
\* what the call returned on the in-process and on the graph-database backend
Called(op, args, texts, mem, fdb) ==
  /\ nstore < MaxStoreCalls
  /\ storeCall' = [op |-> op, args |-> args, texts |-> texts, mem |-> mem, fdb |-> fdb]
  /\ nstore' = nstore + 1

MergeEntityCall(in) ==
  /\ merge_entity(in)
  /\ Called("merge_entity", in, FdbMergeEntityQueries(graph, in.name), None, None)

AddOccurrenceCall(name, o) ==
  /\ AddOccurrence(name, o)
  /\ Called("add_occurrence", [entity_name |-> name, o |-> o], FdbAddOccurrenceQueries,
            None, None)

AddRelationshipCall(r) ==
  /\ AddRelationship(r)
  /\ Called("add_relationship", r, FdbAddRelationshipQueries, None, None)

\* store.add_typed_relationship(...) on both backends
AddTypedRelationshipCall(in) ==
  /\ relationships' = MemAddTypedRelationship(relationships, in.source, in.target,
                                              in.edge_label, in.properties)
  /\ graph' = FdbAddTypedRelationship(graph, in.source, in.target, in.edge_label,
                                      in.properties)
  /\ UNCHANGED <<nodes, supplied>>
  /\ Called("add_typed_relationship", in,
            FdbAddTypedRelationshipQueries(in.edge_label, in.properties), None, None)

\* store.set_entity_properties(...) on both backends
SetEntityPropertiesCall(in) ==
  /\ nodes' = MemSetEntityProperties(nodes, in.name, in.properties)
  /\ graph' = FdbSetEntityProperties(graph, in.name, in.properties)
  /\ UNCHANGED <<relationships, supplied>>
  /\ Called("set_entity_properties", in,
            FdbSetEntityPropertiesQueries(graph, in.name, in.properties),
            MemHasEntity(nodes, in.name), FdbHasEntity(graph, in.name))

\* store.has_relationship(...) on both backends
HasRelationshipCall(in) ==
  /\ UNCHANGED storeVars
  /\ Called("has_relationship", in, FdbHasRelationshipQueries(in.edge_label),
            MemHasRelationship(relationships, in.source, in.target, in.edge_label),
            FdbHasRelationship(graph, in.source, in.target, in.edge_label))

CallNext ==
  \/ \E in \in MergeInputs : MergeEntityCall(in)
  \/ \E name \in Names, o \in OccInputs : AddOccurrenceCall(name, o)
  \/ \E r \in RelInputs : AddRelationshipCall(r)
  \/ \E in \in TypedInputs : AddTypedRelationshipCall(in)
  \/ \E in \in PropertyInputs : SetEntityPropertiesCall(in)
  \/ \E in \in HasRelationshipInputs : HasRelationshipCall(in)

\* ========================================================= AgentOrchestrator
\* agent/orchestrator.py: the plan, its execution with retries and fallbacks, and
\* the adaptation of the plan. The steps themselves (frame and audio
\* extraction, transcription, the analyzers) are collaborators: each run of a
\* step raises or returns what the collaborator yields. A text is kept as its
\* length, a list as its length.

\* the default of max_retries
DefaultMaxRetries == 2

\* len(text) > 10000 adds deep_analysis; len(diagrams) >= 3 adds cross_reference
LongTranscript == 10000
ManyDiagrams == 3

\* {}
EmptyDict == << >>

\* d[key] = value
Put(d, key, value) == (key :> value) @@ d

Depths_ == {"basic", "standard", "comprehensive"}

Step(name, priority) == [step |-> name, priority |-> priority]

\* any(s["step"] == name for s in self._plan)
InPlan(plan, name) == \E i \in 1..Len(plan) : plan[i].step = name

\* AgentOrchestrator._create_plan
CreatePlan(depth) ==
  << Step("extract_frames", "required"), Step("extract_audio", "required"),
     Step("transcribe", "required") >>
  \o (IF depth \in {"standard", "comprehensive"}
      THEN << Step("detect_diagrams", "standard"),
              Step("build_knowledge_graph", "standard") >>
      ELSE << >>)
  \o << Step("extract_key_points", "required"), Step("extract_action_items", "required") >>
  \o (IF depth = "comprehensive"
      THEN << Step("deep_analysis", "comprehensive"),
              Step("cross_reference", "comprehensive") >>
      ELSE << >>)
  \o << Step("generate_reports", "required") >>

\* AgentOrchestrator._adapt_plan
AdaptPlan(a, completed_step, result) ==
  IF completed_step = "transcribe"
  THEN LET text == Get(result, "text", 0) IN
       IF text > LongTranscript /\ ~InPlan(a.plan, "deep_analysis")
       THEN [a EXCEPT !.plan = Append(@, Step("deep_analysis", "adaptive"))]
       ELSE a
  ELSE IF completed_step = "detect_diagrams"
  THEN LET diagrams == Get(result, "diagrams", 0)
           captures == Get(result, "captures", 0)
           b == IF diagrams >= ManyDiagrams /\ ~InPlan(a.plan, "cross_reference")
                THEN [a EXCEPT !.plan = Append(@, Step("cross_reference", "adaptive"))]
                ELSE a
       IN IF captures > diagrams
          THEN [b EXCEPT !.insights = Append(@, "Many uncertain frames")]
          ELSE b
  ELSE a

\* AgentOrchestrator._get_fallback: None when the step has no fallback
GetFallback(step_name) ==
  IF step_name = "detect_diagrams" THEN "screengrab_fallback" ELSE None

\* what the collaborators of one run of a step do: raise, or yield a value
Raise == [kind |-> "raise"]
Yield(value) == [kind |-> "return", value |-> value]

StepOutcomes(step_name) ==
  {Raise} \cup
  (IF step_name = "transcribe"
   THEN {Yield([text |-> LongTranscript]), Yield([text |-> LongTranscript + 1])}
   ELSE IF step_name = "detect_diagrams"
   THEN {Yield([diagrams |-> 0, captures |-> 1]),
         Yield([diagrams |-> ManyDiagrams, captures |-> 0])}
   ELSE IF step_name = "deep_analysis"
   THEN {Yield([risks |-> << >>]), Yield([risks |-> << "r" >>])}
   ELSE {Yield(EmptyDict)})

\* a run of _run_step that an exception left, and one that returned
StepRaised(w, error) == [w |-> w, raised |-> TRUE, error |-> error]
StepReturned(w, result) == [w |-> w, raised |-> FALSE, result |-> result]

\* AgentOrchestrator._deep_analysis: one insight per item of the parsed answer
DeepAnalysis(w, out) ==
  IF Get(Get(w.agent.results, "transcribe", EmptyDict), "text", 0) = 0
  THEN StepReturned(w, EmptyDict)
  ELSE StepReturned(
         [w EXCEPT !.agent.insights =
            @ \o [i \in 1..Len(out.value.risks) |-> "[risks] " \o out.value.risks[i]]],
         out.value)

\* AgentOrchestrator._generate_reports: the insights of the moment are written
\* to the report
GenerateReports(w) ==
  StepReturned([w EXCEPT !.report = w.agent.insights], [report_path |-> "analysis.md"])

\* AgentOrchestrator._run_step: w is the orchestrator with the report file
RunStep(w, step_name, out) ==
  IF out.kind = "raise" THEN StepRaised(w, "boom")
  ELSE IF step_name = "extract_frames" THEN StepReturned(w, [frames |-> 1, paths |-> 1])
  ELSE IF step_name = "extract_audio"
    THEN StepReturned(w, [audio_path |-> "audio.wav", properties |-> EmptyDict])
  ELSE IF step_name = "transcribe"
    THEN IF Get(Get(w.agent.results, "extract_audio", EmptyDict), "audio_path", None) = None
         THEN StepRaised(w, "No audio available for transcription")
         ELSE StepReturned(w, out.value)
  ELSE IF step_name = "detect_diagrams"
    THEN IF Get(Get(w.agent.results, "extract_frames", EmptyDict), "paths", 0) = 0
         THEN StepReturned(w, [diagrams |-> 0, captures |-> 0])
         ELSE StepReturned(w, out.value)
  ELSE IF step_name = "build_knowledge_graph"
    THEN StepReturned(w, [knowledge_graph |-> "kg"])
  ELSE IF step_name = "extract_key_points" THEN StepReturned(w, [key_points |-> 0])
  ELSE IF step_name = "extract_action_items" THEN StepReturned(w, [action_items |-> 0])
  ELSE IF step_name = "deep_analysis" THEN DeepAnalysis(w, out)
  ELSE IF step_name = "cross_reference"
    THEN IF Get(Get(w.agent.results, "build_knowledge_graph", EmptyDict),
                "knowledge_graph", None) = None
         THEN StepReturned(w, EmptyDict)
         ELSE StepReturned(w, [enriched |-> TRUE])
  ELSE IF step_name = "generate_reports" THEN GenerateReports(w)
  ELSE IF step_name = "screengrab_fallback" THEN StepReturned(w, EmptyDict)
  ELSE StepRaised(w, "Unknown step")

\* a last failed attempt whose fallback result is dropped: the error record stays
LastAttemptFailedKeepsError(w, step_name, error, fb) ==
  LET failed == [w EXCEPT !.agent.results = Put(@, step_name, [error |-> error])]
      fallback == GetFallback(step_name)
  IN IF fallback # None
     THEN [w |-> [RunStep(failed, fallback, fb).w EXCEPT !.agent.results = failed.agent.results],
           runs |-> << fallback >>, escaped |-> FALSE]
     ELSE [w |-> failed, runs |-> << >>, escaped |-> FALSE]

\* _execute_step, the branch `if attempt == self.max_retries`: the error record,
\* then the fallback
LastAttemptFailed(w, step_name, error, fb) ==
  LET failed == [w EXCEPT !.agent.results = Put(@, step_name, [error |-> error])]
      fallback == GetFallback(step_name)
  IN IF fallback # None
     THEN LET r == RunStep(failed, fallback, fb) IN
          IF r.raised
          THEN [w |-> r.w, runs |-> << fallback >>, escaped |-> FALSE]
          ELSE [w |-> [r.w EXCEPT !.agent.results = Put(@, step_name, r.result)],
                runs |-> << fallback >>, escaped |-> FALSE]
     ELSE [w |-> failed, runs |-> << >>, escaped |-> FALSE]

\* _execute_step, the loop `for attempt in range(1, self.max_retries + 1)` from
\* `attempt` on: the orchestrator afterwards, the names _run_step was called
\* with, in order, and whether an exception left the method
RECURSIVE Attempts(_, _, _, _, _)
Attempts(w, step_name, attempt, outs, fb) ==
  IF attempt > w.agent.max_retries THEN [w |-> w, runs |-> << >>, escaped |-> FALSE]
  ELSE LET r == RunStep(w, step_name, outs[attempt]) IN
       IF ~r.raised
       THEN [w |-> [r.w EXCEPT !.agent =
                      AdaptPlan([@ EXCEPT !.results = Put(@, step_name, r.result)],
                                step_name, r.result)],
             runs |-> << step_name >>, escaped |-> FALSE]
       ELSE LET rest == IF attempt = w.agent.max_retries
                        THEN LastAttemptFailed(r.w, step_name, r.error, fb)
                        ELSE Attempts(r.w, step_name, attempt + 1, outs, fb)
            IN [rest EXCEPT !.runs = << step_name >> \o @]

\* AgentOrchestrator._execute_step
ExecuteStep(w, step, outs, fb) == Attempts(w, step.step, 1, outs, fb)

\* ------------------------------------------------- AgentOrchestrator actions

NoStep == [step |-> "none"]

\* AgentOrchestrator(provider_manager, max_retries), not yet processing
AgentOrchestratorInit(max_retries) ==
  /\ agent = [max_retries |-> max_retries, plan |-> << >>, results |-> EmptyDict,
              insights |-> << >>]
  /\ run = [phase |-> "new", pc |-> 0, report |-> None, executed |-> NoStep]

\* no orchestrator: its state in the runs that do not use it
NoAgent == AgentOrchestratorInit(DefaultMaxRetries)

\* process, phase 1: self._plan = plan
create_plan(depth) ==
  /\ run.phase = "new"
  /\ agent' = [agent EXCEPT !.plan = CreatePlan(depth)]
  /\ run' = [run EXCEPT !.phase = "executing"]

\* process, phase 2: one turn of `for step in plan`, on the list that
\* _adapt_plan appends to; outs are the outcomes of the attempts, fb that of
\* the fallback
execute_step(outs, fb) ==
  /\ run.phase = "executing"
  /\ run.pc < Len(agent.plan)
  /\ LET step == agent.plan[run.pc + 1]
         r == ExecuteStep([agent |-> agent, report |-> run.report], step, outs, fb)
     IN /\ agent' = r.w.agent
        /\ run' = [phase |-> "executing", pc |-> run.pc + 1, report |-> r.w.report,
                   executed |-> [step |-> step.step, runs |-> r.runs,
                                 escaped |-> r.escaped, outs |-> outs, fb |-> fb,
                                 before |-> agent.results]]

\* process, phases 3 and 4, when the loop over the plan is exhausted
build_manifest ==
  /\ run.phase = "executing"
  /\ run.pc = Len(agent.plan)
  /\ run' = [run EXCEPT !.phase = "done"]
  /\ UNCHANGED agent

AgentNext ==
  \/ \E depth \in Depths_ : create_plan(depth)
  \/ \E outs \in UNION { [1..agent.max_retries -> StepOutcomes(name)] :
                           name \in {agent.plan[i].step : i \in 1..Len(agent.plan)} },
        fb \in StepOutcomes("screengrab_fallback") :
       /\ run.phase = "executing" /\ run.pc < Len(agent.plan)
       /\ outs \in [1..agent.max_retries -> StepOutcomes(agent.plan[run.pc + 1].step)]
       /\ execute_step(outs, fb)
  \/ build_manifest

\* ------------------------------------------------------------ specifications

Init == StoreInit /\ KgInit /\ NoEngine /\ NoStoreCall /\ NoAgent

\* the storage contract on both backends
Spec == Init /\ [][StoreNext /\ UNCHANGED kgVars /\ UNCHANGED askVars
                         /\ UNCHANGED callVars /\ UNCHANGED agentVars]_vars

\* the integration layer
SpecKG == Init /\ [][KgNext /\ UNCHANGED storeVars /\ UNCHANGED askVars
                        /\ UNCHANGED callVars /\ UNCHANGED agentVars]_vars

\* the query engine over a populated in-process store
AskInit == GraphQueryEngineInit /\ KgInit /\ NoStoreCall /\ NoAgent

SpecAsk == AskInit /\ [][AskNext /\ UNCHANGED storeVars /\ UNCHANGED kgVars
                           /\ UNCHANGED callVars /\ UNCHANGED agentVars]_vars

\* the direct-mode methods of the engine over a populated in-process store
SpecQuery == AskInit /\ [][QueryNext /\ UNCHANGED storeVars /\ UNCHANGED kgVars
                               /\ UNCHANGED callVars /\ UNCHANGED agentVars]_vars

\* the whole storage contract, one call after another on populated stores
CallInit == StorePopulated /\ KgInit /\ NoEngine /\ NoStoreCall /\ NoAgent

SpecCalls == CallInit /\ [][CallNext /\ UNCHANGED kgVars /\ UNCHANGED askVars
                                  /\ UNCHANGED agentVars]_vars

\* one run of process on an orchestrator constructed with max_retries >= 1
AgentInit ==
  /\ StoreInit /\ KgInit /\ NoEngine /\ NoStoreCall
  /\ \E max_retries \in 1..MaxRetries : AgentOrchestratorInit(max_retries)

SpecAgent == AgentInit /\ [][AgentNext /\ UNCHANGED storeVars /\ UNCHANGED kgVars
                                  /\ UNCHANGED askVars /\ UNCHANGED callVars]_vars

\* ---------------------------------------------------- KnowledgeGraph claims

\* the description set of a node
Descriptions(node) == heap[node.descriptions]

\* C3: after any sequence of add_content, process_transcript, process_diagrams and
\* merge calls on a graph that starts empty, no two of its nodes have names that
\* are equal when compared case-insensitively.
C3_UniqueIdentity ==
  \A g \in {"self", "other"} :
    \A i, j \in 1..Len(kg[g].nodes) :
      i # j => ~SameName(kg[g].nodes[i].val.name, kg[g].nodes[j].val.name)

\* the nodes of kg.other whose id equals nid case-insensitively, in iteration order
SourcesLike(nid) == SelectSeq(kg.other.nodes, LAMBDA it : SameName(it.key, nid))

RECURSIVE AllOccurrences(_)
AllOccurrences(items) ==
  IF items = <<>> THEN <<>> ELSE items[1].val.occurrences \o AllOccurrences(Tail(items))

AllDescriptions(items) == UNION {Descriptions(items[i].val) : i \in 1..Len(items)}

\* what the merge step owes one node id of kg.other
MergedAsClaimed(nid) ==
  LET before == FindExisting(kg.self.nodes, nid)
      srcs == SourcesLike(nid)
  IN IF before.found
     THEN LET old == NodeAt(kg.self.nodes, before.id)
              new == NodeAt(kg'.self.nodes, before.id)
          IN /\ new.id = old.id /\ new.name = old.name /\ new.type = old.type
             /\ heap'[new.descriptions] = Descriptions(old) \cup AllDescriptions(srcs)
             /\ new.occurrences = old.occurrences \o AllOccurrences(srcs)
     ELSE /\ HasKey(kg'.self.nodes, srcs[1].key)
          /\ LET new == NodeAt(kg'.self.nodes, srcs[1].key)
             IN /\ new.name = srcs[1].val.name /\ new.type = srcs[1].val.type
                /\ heap'[new.descriptions] = AllDescriptions(srcs)
                /\ new.occurrences = AllOccurrences(srcs)

\* C4: merge(other), for every node id of other (the empty string included): when
\* the destination has a node whose id is equal case-insensitively no node is
\* added, that node keeps its id, name and type, its description set becomes the
\* union and its occurrences become its own followed by the source's; otherwise
\* exactly one node is added, carrying the source's data.
C4_MergePerNode ==
  [][merge =>
       /\ \A i \in 1..Len(kg.other.nodes) : MergedAsClaimed(kg.other.nodes[i].key)
       /\ Len(kg'.self.nodes) = Len(kg.self.nodes)
            + Cardinality({Lower(kg.other.nodes[i].key) : i \in
                 {k \in 1..Len(kg.other.nodes) :
                    ~FindExisting(kg.self.nodes, kg.other.nodes[k].key).found}})]_vars

\* C5: a second merge of the same graph leaves the destination's node count
\* unchanged and appends |G.relationships| further relationship records; after
\* two merges into an empty destination the relationship count is twice
\* |G.relationships|.
C5_MergeTwice ==
  [][merge =>
       /\ otherMerged =>
            /\ Len(kg'.self.nodes) = Len(kg.self.nodes)
            /\ Len(kg'.self.relationships) =
                 Len(kg.self.relationships) + Len(kg.other.relationships)
       /\ pureMerges' = 2 =>
            Len(kg'.self.relationships) = 2 * Len(kg'.other.relationships)]_vars

\* C5 witness: a graph of two nodes and one relationship has been merged twice
\* into the empty destination, which holds two nodes and two relationships.
C5_Witness ==
  /\ pureMerges = 2
  /\ Len(kg.other.nodes) = 2 /\ Len(kg.other.relationships) = 1
  /\ Len(kg.self.nodes) = 2 /\ Len(kg.self.relationships) = 2

\* the response is a text that parse_json_from_response cannot parse
Unparsable(resp) == resp.kind = "text" /\ ParseJsonFromResponse(resp) = JsonNull

\* C7: when the call to the model throws, or returns text that cannot be parsed,
\* add_content returns normally and leaves the nodes and relationships as they
\* were.
C7_AddContentNeverRaises ==
  (call.op = "add_content" /\ (call.resp.kind = "raise" \/ Unparsable(call.resp)))
    => (~call.raised /\ ~call.changed)

\* some node of graph g has this name as its id, compared case-insensitively
EntityExists(g, name) == FindExisting(kg[g].nodes, name).found

\* C8: add_content stores an extracted relationship if and only if both of its
\* named entities exist in the graph (case-insensitively) once the entities of
\* the call are merged; hence in a graph built only by add_content every stored
\* relationship has both endpoints present.
C8_RelationshipIffEndpoints ==
  /\ (call.op = "add_content" /\ ~call.raised) =>
       LET rels == kg[call.g].relationships
           added == SubSeq(rels, Len(rels) - call.added + 1, Len(rels))
           expected == SelectSeq(Extract(call.resp).rels,
                         LAMBDA r : EntityExists(call.g, r.source)
                                    /\ EntityExists(call.g, r.target))
       IN /\ Len(added) = Len(expected)
          /\ \A i \in 1..Len(added) :
               /\ added[i].source = expected[i].source
               /\ added[i].target = expected[i].target
               /\ added[i].type = expected[i].type
  /\ \A i \in 1..Len(kg.other.relationships) :
       /\ EntityExists("other", kg.other.relationships[i].source)
       /\ EntityExists("other", kg.other.relationships[i].target)

\* --------------------------------------------------- GraphQueryEngine claims

\* the four direct-mode methods a plan may select
DirectMethods == {"entities", "relationships", "neighbors", "stats"}

\* the planning call returned a JSON object that has an "action" key
IsPlan(planned) ==
  /\ planned.kind = "text"
  /\ ParseJson(planned).t = "dict"
  /\ "action" \in DOMAIN ParseJson(planned)

\* the action of a plan names one of the four direct-mode methods
Recognized(planned) ==
  \E method \in DirectMethods : IsWord(ParseJson(planned).action, method)

\* what ask() called once it had the answer of the planning call (stats() for
\* the prompt and the planning call itself come first)
PlanCalls(outcome) ==
  IF Len(outcome.calls) <= 2 THEN <<>> ELSE SubSeq(outcome.calls, 3, Len(outcome.calls))

\* the queries among them, and the number of language-model calls of the ask
Queries(outcome) == SelectSeq(PlanCalls(outcome), LAMBDA c : c # "chat")

Chats(outcome) == Len(SelectSeq(outcome.calls, LAMBDA c : c = "chat"))

\* C9: whatever the planning call returns, ask runs at most one query for the
\* plan, that query is one of entities, relationships, neighbors, stats, and
\* neither cypher nor raw_query is ever called; when the plan's action is none
\* of the four, ask returns data None with the "Unknown action in plan"
\* explanation, having run no query and made no synthesis call.
C9_ClosedActionSet ==
  answer.asked =>
    LET outcome == answer.outcome IN
    /\ Len(Queries(outcome)) <= 1
    /\ \A i \in 1..Len(Queries(outcome)) : Queries(outcome)[i] \in DirectMethods
    /\ \A i \in 1..Len(outcome.calls) : outcome.calls[i] \notin {"cypher", "raw_query"}
    /\ (pm /\ IsPlan(answer.planned) /\ ~Recognized(answer.planned)) =>
          /\ ~outcome.raised
          /\ outcome.result.data.t = "null"
          /\ outcome.result.explanation.msg = "Unknown action in plan"
          /\ Queries(outcome) = <<>>
          /\ Chats(outcome) = 1

\* an ask over a store that holds entities whose plan selected "cypher"
C9_Witness ==
  /\ answer.asked
  /\ pm
  /\ nodes # <<>>
  /\ IsPlan(answer.planned)
  /\ IsWord(ParseJson(answer.planned).action, "cypher")
  /\ answer.outcome.calls = <<"stats", "chat">>

\* C10: when the planning call returns a text that is not a JSON object with an
\* "action" key, ask returns data None with the explanation that the plan could
\* not be parsed; no exception leaves ask, no query runs, and the planning call
\* is the only language-model call.
C10_UnparsablePlan ==
  (answer.asked /\ pm /\ answer.planned.kind = "text" /\ ~IsPlan(answer.planned)) =>
    LET outcome == answer.outcome IN
    /\ ~outcome.raised
    /\ outcome.result.data.t = "null"
    /\ outcome.result.explanation.msg = "Could not parse LLM query plan"
    /\ Queries(outcome) = <<>>
    /\ Chats(outcome) = 1

\* the direct-mode call that a plan with a recognized action stands for
DirectCall(ns, rels, plan) ==
  CASE IsWord(plan.action, "entities") ->
         Entities(ns, PlanGet(plan, "name", JsonNull),
                  PlanGet(plan, "entity_type", JsonNull), DefaultLimit)
    [] IsWord(plan.action, "relationships") ->
         Relationships(rels, PlanGet(plan, "source", JsonNull),
                       PlanGet(plan, "target", JsonNull),
                       PlanGet(plan, "rel_type", JsonNull), DefaultLimit)
    [] IsWord(plan.action, "neighbors") ->
         Neighbors(ns, rels, PlanGet(plan, "entity_name", Str("")),
                   PlanGet(plan, "depth", JsonNum(1)))
    [] IsWord(plan.action, "stats") -> Stats(ns, rels)

\* C11: when the plan selects one of the four actions and the direct-mode call
\* returns, the data of ask's result is the data of that call on the same store
\* (for stats, stats().data), whatever the synthesis call returns and whether or
\* not it fails; after a failed synthesis the explanation says so.
C11_DataIndependentOfSynthesis ==
  (answer.asked /\ pm /\ IsPlan(answer.planned) /\ Recognized(answer.planned)) =>
    LET plan == ParseJson(answer.planned)
        direct == DirectCall(nodes, relationships, plan)
        outcome == answer.outcome
    IN ~direct.raised =>
         /\ ~outcome.raised
         /\ outcome.result.data = direct.result.data
         /\ \A synth \in SynthResponses :
              LET other == Ask(nodes, relationships, pm, answer.planned, synth)
              IN ~other.raised /\ other.result.data = outcome.result.data
         /\ IsWord(plan.action, "stats") =>
              outcome.result.data = Stats(nodes, relationships).result.data
         /\ answer.synth.kind = "raise" =>
              outcome.result.explanation.msg = "LLM synthesis failed, showing raw results"

\* an ask whose plan was stats, over a store with entities, whose synthesis failed
C11_Witness ==
  /\ answer.asked /\ pm
  /\ IsPlan(answer.planned)
  /\ IsWord(ParseJson(answer.planned).action, "stats")
  /\ answer.synth.kind = "raise"
  /\ nodes # <<>>
  /\ answer.outcome.result.data.entity_count = Len(nodes)

\* ------------------------------------------------------- direct-mode claims

\* the lowercased names one undirected hop away from the names in S, with S
Adjacent(S, rels) ==
  S \cup {Lower(rels[i].target) : i \in {k \in 1..Len(rels) : Lower(rels[k].source) \in S}}
    \cup {Lower(rels[i].source) : i \in {k \in 1..Len(rels) : Lower(rels[k].target) \in S}}

\* the lowercased names within d undirected hops of the names in S
RECURSIVE Reach(_, _, _)
Reach(S, rels, d) == IF d <= 0 THEN S ELSE Reach(Adjacent(S, rels), rels, d - 1)

\* the entity records and the relationship records of a neighbors() result
EntityRecords(items) == SelectSeq(items, LAMBDA it : "name" \in DOMAIN it)

RelationshipRecords(items) == SelectSeq(items, LAMBDA it : "name" \notin DOMAIN it)

\* C12: for an existing seed and a depth d >= 0, the entity records of
\* neighbors(seed, d) are the seed first, then each entity whose lowercased name
\* is within d undirected hops of the seed over the stored relationships, once
\* each; names without an entity are walked through and add no record.
C12_NeighborsEntities ==
  (lastQuery.method = "neighbors" /\ MemHasEntity(nodes, lastQuery.args.entity_name.s)) =>
    LET seed == lastQuery.args.entity_name.s
        outcome == lastQuery.outcome
        reach == Reach({Lower(seed)}, relationships, lastQuery.args.depth.n)
        expected == {nodes[k].val : k \in {j \in 1..Len(nodes) :
                                             Lower(nodes[j].val.name) \in reach}}
    IN /\ ~outcome.raised
       /\ LET ents == EntityRecords(outcome.result.data.items)
          IN /\ ents[1] = MemGetEntity(nodes, seed)
             /\ {ents[i] : i \in 1..Len(ents)} = expected
             /\ Len(ents) = Cardinality(expected)

\* neighbors("Py", 2) on the store where Py reaches Bob only through "Bo", a
\* name without an entity: the records are Py and Bob
C12_Witness ==
  /\ lastQuery.method = "neighbors"
  /\ lastQuery.args.entity_name.s = Py
  /\ lastQuery.args.depth.n = 2
  /\ ~MemHasEntity(nodes, Bo)
  /\ LET ents == EntityRecords(lastQuery.outcome.result.data.items)
     IN Len(ents) = 2 /\ ents[1].name = Py /\ ents[2].name = Bob

\* a filter argument is given: it is a string other than the empty one (the
\* code tests `if name`, `if entity_type`)
Given(filter) == filter.t = "str" /\ filter.s # <<>>

\* the entity passes the filters of entities(name, entity_type)
EntityMatches(e, name, entity_type) ==
  /\ Given(name) => \E i \in 0..(Len(e.name) - Len(name.s)) :
                      Lower(SubSeq(e.name, i + 1, i + Len(name.s))) = Lower(name.s)
  /\ Given(entity_type) => Lower(Chars(e.type)) = Lower(entity_type.s)

\* the entities of the store that pass the filters, in the store's order
MatchingEntities(name, entity_type) ==
  SelectSeq(MemGetAllEntities(nodes), LAMBDA e : EntityMatches(e, name, entity_type))

Min(a, b) == IF a <= b THEN a ELSE b

\* the relationship passes the filters of relationships(source, target, rel_type)
RelationshipMatches(r, source, target, rel_type) ==
  /\ Given(source) => IsSub(Lower(source.s), Lower(r.source))
  /\ Given(target) => IsSub(Lower(target.s), Lower(r.target))
  /\ Given(rel_type) => IsSub(Lower(rel_type.s), Lower(Chars(r.type)))

MatchingRelationships(source, target, rel_type) ==
  SelectSeq(MemGetAllRelationships(relationships),
            LAMBDA r : RelationshipMatches(r, source, target, rel_type))

\* C14: entities(..., limit) and relationships(..., limit) return at most limit
\* records, and exactly min(limit, number of matching records), for every
\* limit >= 0.
C14_LimitCap ==
  /\ lastQuery.method = "entities" =>
       Len(lastQuery.outcome.result.data.items) =
         Min(lastQuery.args.limit,
             Len(MatchingEntities(lastQuery.args.name, lastQuery.args.entity_type)))
  /\ lastQuery.method = "relationships" =>
       Len(lastQuery.outcome.result.data.items) =
         Min(lastQuery.args.limit,
             Len(MatchingRelationships(lastQuery.args.source, lastQuery.args.target,
                                       lastQuery.args.rel_type)))

\* ------------------------------------------------------ storage contract claims

\* the types of the relationships a backend holds from source to target, names
\* compared case-insensitively: the type given to add_relationship, or the edge
\* label given to add_typed_relationship
MemStoredTypes(source, target) ==
  { relationships[i].type : i \in { j \in 1..Len(relationships) :
       /\ Lower(relationships[j].source) = Lower(source)
       /\ Lower(relationships[j].target) = Lower(target) } }

FdbStoredTypes(source, target) ==
  { (IF graph.edges[i].label = "RELATED_TO" THEN graph.edges[i].rel_type
     ELSE graph.edges[i].label) : i \in { j \in 1..Len(graph.edges) :
       /\ graph.ents[graph.edges[j].a].name_lower = Lower(source)
       /\ graph.ents[graph.edges[j].b].name_lower = Lower(target) } }

BothEndpointsExist(source, target) ==
  /\ MemHasEntity(nodes, source) /\ MemHasEntity(nodes, target)
  /\ FdbHasEntity(graph, source) /\ FdbHasEntity(graph, target)

\* C15: has_relationship(source, target, edge_label) is true exactly when some
\* stored relationship has that source and target (case-insensitively, in that
\* direction) and, when edge_label is given, that type; after
\* add_relationship(s, t, ty) between two existing entities has_relationship(s, t)
\* and has_relationship(s, t, ty) are true on both backends.
C15_HasRelationship ==
  /\ storeCall.op = "has_relationship" =>
       LET a == storeCall.args IN
       /\ storeCall.mem = (\E ty \in MemStoredTypes(a.source, a.target) :
                             a.edge_label = None \/ ty = a.edge_label)
       /\ storeCall.fdb = (\E ty \in FdbStoredTypes(a.source, a.target) :
                             a.edge_label = None \/ ty = a.edge_label)
  /\ (/\ storeCall.op = "add_relationship"
      /\ BothEndpointsExist(storeCall.args.source, storeCall.args.target)) =>
       LET a == storeCall.args IN
       /\ MemHasRelationship(relationships, a.source, a.target, None)
       /\ MemHasRelationship(relationships, a.source, a.target, a.type)
       /\ FdbHasRelationship(graph, a.source, a.target, None)
       /\ FdbHasRelationship(graph, a.source, a.target, a.type)

\* the part of C15 about the in-process backend and about an omitted edge_label
C15_HoldsInMemory ==
  /\ storeCall.op = "has_relationship" =>
       LET a == storeCall.args IN
       /\ storeCall.mem = (\E ty \in MemStoredTypes(a.source, a.target) :
                             a.edge_label = None \/ ty = a.edge_label)
       /\ a.edge_label = None =>
            storeCall.fdb = (FdbStoredTypes(a.source, a.target) # {})
  /\ (/\ storeCall.op = "add_relationship"
      /\ BothEndpointsExist(storeCall.args.source, storeCall.args.target)) =>
       LET a == storeCall.args IN
       /\ MemHasRelationship(relationships, a.source, a.target, None)
       /\ MemHasRelationship(relationships, a.source, a.target, a.type)
       /\ FdbHasRelationship(graph, a.source, a.target, None)

\* the keys of a properties dict, in order
Keys(properties) == [i \in 1..Len(properties) |-> properties[i].k]

\* the texts the graph-database backend sends for an operation with the given
\* arguments on the graph g
TextsOf(op, g, a) ==
  IF op = "merge_entity" THEN FdbMergeEntityQueries(g, a.name)
  ELSE IF op = "add_occurrence" THEN FdbAddOccurrenceQueries
  ELSE IF op = "add_relationship" THEN FdbAddRelationshipQueries
  ELSE IF op = "add_typed_relationship"
    THEN FdbAddTypedRelationshipQueries(a.edge_label, a.properties)
  ELSE IF op = "set_entity_properties"
    THEN FdbSetEntityPropertiesQueries(g, a.name, a.properties)
  ELSE FdbHasRelationshipQueries(a.edge_label)

\* the arguments the model draws for an operation
ArgsOf(op) ==
  IF op = "merge_entity" THEN MergeInputs
  ELSE IF op = "add_occurrence"
    THEN { [entity_name |-> name, o |-> o] : name \in Names, o \in OccInputs }
  ELSE IF op = "add_relationship" THEN RelInputs
  ELSE IF op = "add_typed_relationship" THEN TypedInputs
  ELSE IF op = "set_entity_properties" THEN PropertyInputs
  ELSE HasRelationshipInputs

\* two calls of one operation that take the same path through the method: the
\* entity named exists in both or in neither, the same number of properties is
\* passed and an edge label is passed in both or in neither
SamePath(op, g, a, b) ==
  /\ op \in {"merge_entity", "set_entity_properties"} =>
       FdbHasEntity(g, a.name) = FdbHasEntity(g, b.name)
  /\ op \in {"add_typed_relationship", "set_entity_properties"} =>
       Len(a.properties) = Len(b.properties)
  /\ op = "has_relationship" =>
       (a.edge_label \in {None, ""}) = (b.edge_label \in {None, ""})

\* two calls that pass the same edge label and the same property keys
SameLabelAndKeys(op, a, b) ==
  /\ op \in {"add_typed_relationship", "has_relationship"} =>
       a.edge_label = b.edge_label
  /\ op \in {"add_typed_relationship", "set_entity_properties"} =>
       Keys(a.properties) = Keys(b.properties)

\* C16: every query the graph-database backend sends is a fixed template; two
\* calls of the same operation that differ only in entity names, edge labels,
\* property keys or property values send the same query text.
C16_FixedTemplates ==
  [][ storeCall'.op # "none" =>
        \A other \in ArgsOf(storeCall'.op) :
          SamePath(storeCall'.op, graph, storeCall'.args, other) =>
            TextsOf(storeCall'.op, graph, other) = storeCall'.texts ]_vars

\* the part of C16 about entity names and property values: calls that differ
\* only in those send the same texts
C16_NamesAndValuesAreParameters ==
  [][ storeCall'.op # "none" =>
        \A other \in ArgsOf(storeCall'.op) :
          (/\ SamePath(storeCall'.op, graph, storeCall'.args, other)
           /\ SameLabelAndKeys(storeCall'.op, storeCall'.args, other)) =>
            TextsOf(storeCall'.op, graph, other) = storeCall'.texts ]_vars

\* s is a prefix of t
IsPrefixOf(s, t) == Len(s) <= Len(t) /\ SubSeq(t, 1, Len(s)) = s

\* nothing of the nodes (a dict as its items) and relationships before is missing
\* after: no fewer nodes, no fewer relationships, and every node is still there
\* under its key with its occurrences as a prefix of the later ones
NothingRemoved(nodesBefore, relsBefore, nodesAfter, relsAfter) ==
  /\ Len(nodesAfter) >= Len(nodesBefore)
  /\ Len(relsAfter) >= Len(relsBefore)
  /\ \A i \in 1..Len(nodesBefore) :
       /\ HasKey(nodesAfter, nodesBefore[i].key)
       /\ IsPrefixOf(nodesBefore[i].val.occurrences,
                     NodeAt(nodesAfter, nodesBefore[i].key).occurrences)

\* C17: across any sequence of store operations and of KnowledgeGraph operations
\* (add_content, process_transcript, process_diagrams, merge) the entity count
\* and the relationship count never decrease, and the occurrence records an
\* entity already has remain, in the same order, a prefix of its later
\* occurrence sequence.
C17_NothingRemoved ==
  [][\A g \in {"self", "other"} :
       NothingRemoved(kg[g].nodes, kg[g].relationships,
                      kg'[g].nodes, kg'[g].relationships)]_vars

\* the part of C17 about the KnowledgeGraph operations other than a merge that
\* meets the empty-string id
C17_HoldsOtherwise ==
  [][(~merge \/ ~HasKey(kg.other.nodes, Empty)) =>
       \A g \in {"self", "other"} :
         NothingRemoved(kg[g].nodes, kg[g].relationships,
                        kg'[g].nodes, kg'[g].relationships)]_vars

\* the part of C17 about the store operations, on both backends
C17_StoreNothingRemoved ==
  [][/\ NothingRemoved(nodes, relationships, nodes', relationships')
     /\ FdbGetEntityCount(graph') >= FdbGetEntityCount(graph)
     /\ FdbGetRelationshipCount(graph') >= FdbGetRelationshipCount(graph)
     /\ \A i \in 1..Len(graph.ents) :
          /\ FdbHasEntity(graph', graph.ents[i].name)
          /\ IsPrefixOf(FdbGetEntity(graph, graph.ents[i].name).occurrences,
                        FdbGetEntity(graph', graph.ents[i].name).occurrences)]_vars

\* the occurrence record add_occurrence is given
OccurrenceRecord(o) == [source |-> o.source, timestamp |-> o.timestamp, text |-> o.text]

\* seq with the element at position i replaced by x
ReplacedAt(seq, i, x) == [k \in 1..Len(seq) |-> IF k = i THEN x ELSE seq[k]]

\* the entity records of a backend after one occurrence record was appended to
\* the entity at position i and nothing else changed
WithOccurrence(entityRecords, i, o) ==
  ReplacedAt(entityRecords, i,
             [entityRecords[i] EXCEPT !.occurrences = Append(@, OccurrenceRecord(o))])

\* C18: add_occurrence(name, ...) on an existing entity (name compared
\* case-insensitively) appends exactly one record to the end of that entity's
\* occurrence sequence and changes nothing else; on a name with no entity it is
\* a silent no-op: no entity is created and no state changes. On both backends.
\* (the entity of a name is the one whose identity key, the lowercase of the name
\* it was created under, is the lowercase of that name)
C18_AddOccurrence ==
  [][storeCall'.op = "add_occurrence" =>
       LET name == storeCall'.args.entity_name
           o == storeCall'.args.o
           mem == MemGetAllEntities(nodes)
           fdb == FdbGetAllEntities(graph)
           i == CHOOSE k \in 1..Len(nodes) : nodes[k].key = Lower(name)
           j == CHOOSE k \in 1..Len(graph.ents) : graph.ents[k].name_lower = Lower(name)
       IN /\ MemGetAllRelationships(relationships') = MemGetAllRelationships(relationships)
          /\ graph'.edges = graph.edges
          /\ FdbGetRelationshipCount(graph') = FdbGetRelationshipCount(graph)
          /\ IF \E k \in 1..Len(nodes) : nodes[k].key = Lower(name)
             THEN /\ MemGetAllEntities(nodes') = WithOccurrence(mem, i, o)
                  /\ FdbGetAllEntities(graph') = WithOccurrence(fdb, j, o)
             ELSE /\ nodes' = nodes
                  /\ graph' = graph]_vars

\* C18 witness: add_occurrence was called under a name written in another case
\* than the entity's, whose last occurrence is now the record on both backends;
\* and (second disjunct) it was called under a name with no entity.
C18_Witness ==
  /\ storeCall.op = "add_occurrence"
  /\ MemHasEntity(nodes, storeCall.args.entity_name)
  /\ MemGetEntity(nodes, storeCall.args.entity_name).name # storeCall.args.entity_name
  /\ LET mem == MemGetEntity(nodes, storeCall.args.entity_name).occurrences
         fdb == FdbGetEntity(graph, storeCall.args.entity_name).occurrences
     IN /\ Len(mem) = 2 /\ mem[2] = OccurrenceRecord(storeCall.args.o)
        /\ fdb = mem

\* C18 witness of the other case: add_occurrence was called under a name with no
\* entity on a store that has entities
C18_WitnessNoEntity ==
  /\ storeCall.op = "add_occurrence"
  /\ ~MemHasEntity(nodes, storeCall.args.entity_name)
  /\ ~FdbHasEntity(graph, storeCall.args.entity_name)
  /\ Len(nodes) > 0

\* the record add_relationship is given
RelationshipRecord(r) ==
  [source |-> r.source, target |-> r.target, type |-> r.type,
   content_source |-> r.content_source, timestamp |-> r.timestamp]

\* C19: add_relationship that names an endpoint with no entity: the in-process
\* backend appends the record anyway (its relationship count rises by one), the
\* graph-database backend creates nothing (relationship count and
\* get_all_relationships unchanged); when both endpoints exist, both backends add
\* exactly one relationship.
C19_AddRelationship ==
  [][storeCall'.op = "add_relationship" =>
       LET r == storeCall'.args IN
       /\ MemGetAllRelationships(relationships') =
            Append(MemGetAllRelationships(relationships), RelationshipRecord(r))
       /\ MemGetRelationshipCount(relationships') =
            MemGetRelationshipCount(relationships) + 1
       /\ nodes' = nodes
       /\ FdbGetAllEntities(graph') = FdbGetAllEntities(graph)
       /\ IF FdbHasEntity(graph, r.source) /\ FdbHasEntity(graph, r.target)
          THEN /\ FdbGetRelationshipCount(graph') = FdbGetRelationshipCount(graph) + 1
               /\ Len(FdbGetAllRelationships(graph')) =
                    Len(FdbGetAllRelationships(graph)) + 1
               /\ SubSeq(FdbGetAllRelationships(graph'), 1,
                         Len(FdbGetAllRelationships(graph))) =
                    FdbGetAllRelationships(graph)
               /\ LET new == FdbGetAllRelationships(graph')[Len(FdbGetAllRelationships(graph'))]
                  IN /\ new.source = FdbGetEntity(graph, r.source).name
                     /\ new.target = FdbGetEntity(graph, r.target).name
                     /\ new.type = r.type
          ELSE /\ FdbGetRelationshipCount(graph') = FdbGetRelationshipCount(graph)
               /\ FdbGetAllRelationships(graph') = FdbGetAllRelationships(graph)
               /\ graph' = graph]_vars

\* C19 witness: add_relationship was called with a target that has no entity on
\* stores that hold its source; the in-process backend ends with that record and
\* holds more relationships than the graph-database backend.
C19_Witness ==
  /\ storeCall.op = "add_relationship"
  /\ FdbHasEntity(graph, storeCall.args.source)
  /\ MemHasEntity(nodes, storeCall.args.source)
  /\ ~FdbHasEntity(graph, storeCall.args.target)
  /\ ~MemHasEntity(nodes, storeCall.args.target)
  /\ relationships[Len(relationships)] = RelationshipRecord(storeCall.args)
  /\ MemGetRelationshipCount(relationships) > FdbGetRelationshipCount(graph)

\* C19 witness of the other case: add_relationship was called between two
\* existing entities and both backends hold one relationship more than the
\* populated stores, the same number
C19_WitnessBothExist ==
  /\ storeCall.op = "add_relationship"
  /\ BothEndpointsExist(storeCall.args.source, storeCall.args.target)
  /\ nstore = 1
  /\ MemGetRelationshipCount(relationships) = 2
  /\ FdbGetRelationshipCount(graph) = 2

\* C20: on the graph-database backend get_relationship_count() counts user
\* relationships only: add_occurrence never changes it, and every
\* add_relationship or add_typed_relationship (with any edge label) whose two
\* endpoints exist raises it by exactly one.
C20_CountsUserRelationships ==
  [][/\ storeCall'.op = "add_occurrence" =>
          FdbGetRelationshipCount(graph') = FdbGetRelationshipCount(graph)
     /\ (/\ storeCall'.op \in {"add_relationship", "add_typed_relationship"}
         /\ FdbHasEntity(graph, storeCall'.args.source)
         /\ FdbHasEntity(graph, storeCall'.args.target)) =>
          FdbGetRelationshipCount(graph') = FdbGetRelationshipCount(graph) + 1]_vars

\* the part of C20 about every edge label but that of the bookkeeping edges
C20_HoldsForOtherLabels ==
  [][/\ storeCall'.op = "add_occurrence" =>
          FdbGetRelationshipCount(graph') = FdbGetRelationshipCount(graph)
     /\ (/\ storeCall'.op \in {"add_relationship", "add_typed_relationship"}
         /\ FdbHasEntity(graph, storeCall'.args.source)
         /\ FdbHasEntity(graph, storeCall'.args.target)
         /\ storeCall'.op = "add_typed_relationship" =>
              storeCall'.args.edge_label # "OCCURRED_IN") =>
          FdbGetRelationshipCount(graph') = FdbGetRelationshipCount(graph) + 1]_vars

\* ------------------------------------------------- process_transcript claims

\* the non-empty speakers of the segments of a transcript
Speakers(transcript) ==
  { transcript.segments[i].speaker :
      i \in { k \in 1..Len(transcript.segments) :
                /\ "speaker" \in DOMAIN transcript.segments[k]
                /\ transcript.segments[k].speaker # <<>> } }

\* the starts (from 0) of the batches of batch_size consecutive segments
BatchStarts(n, batch_size) == { k \in 0..(n - 1) : k % batch_size = 0 }

\* the segments of the batch that starts at k
BatchAt(segments, batch_size, k) ==
  [i \in 1..(IF k + batch_size < Len(segments) THEN batch_size ELSE Len(segments) - k) |->
     segments[k + i]]

\* the batch has some segment with a text that is not blank
HasText(batch) ==
  \E i \in 1..Len(batch) : "text" \in DOMAIN batch[i] /\ ~IsBlank(batch[i].text)

\* what C21 says of the extraction calls of one process_transcript call on the
\* nodes `before`
TranscriptAsClaimed(calls, before, transcript, batch_size) ==
  LET segments == transcript.segments IN
  \* the speakers are registered when the first call is issued
  /\ \A c \in 1..Len(calls) : \A speaker \in Speakers(transcript) :
       /\ HasKey(calls[c].nodes, speaker)
       /\ ~HasKey(before, speaker) =>
            /\ NodeAt(calls[1].nodes, speaker).type = "person"
            /\ NodeAt(calls[1].nodes, speaker).occurrences = << >>
  \* every call is for one batch that has text, and the calls are in segment order
  /\ \A c \in 1..Len(calls) :
       /\ calls[c].start \in BatchStarts(Len(segments), batch_size)
       /\ HasText(BatchAt(segments, batch_size, calls[c].start))
       /\ calls[c].text = CombinedText(BatchAt(segments, batch_size, calls[c].start))
  /\ \A c, d \in 1..Len(calls) : c < d => calls[c].start < calls[d].start
  \* no batch that has text is left out before the loop ends
  /\ \A k \in BatchStarts(Len(segments), batch_size) :
       (/\ HasText(BatchAt(segments, batch_size, k))
        /\ \A c \in 1..Len(calls) : calls[c].start # k) =>
          /\ calls # << >>
          /\ calls[Len(calls)].raised
          /\ calls[Len(calls)].start < k

\* C21: process_transcript registers every non-empty speaker of every segment
\* as an entity (of type person when newly created, with no occurrences) before
\* the first extraction call; it then issues at most one extraction call per
\* batch of batch_size consecutive segments, in segment order, each segment in
\* exactly one batch, and skips the batches whose combined text is blank.
C21_SpeakersThenBatches ==
  [][\A t \in Transcripts, batch_size \in BatchSizes, resps \in [1..2 -> BatchResponses] :
       (process_transcript(t, batch_size, resps) /\ "segments" \in DOMAIN t) =>
          /\ TranscriptAsClaimed(ExtractionCalls(World, "self", t, batch_size, resps),
                                 kg.self.nodes, t, batch_size)
          /\ \A speaker \in Speakers(t) : HasKey(kg'.self.nodes, speaker)]_vars

\* C21 witness: process_transcript returned on a graph that now holds both
\* speakers; the speaker of the first segment was registered as a person by
\* this call and its first occurrence comes from the first batch.
C21_Witness ==
  /\ call.op = "process_transcript" /\ ~call.raised
  /\ HasKey(kg.self.nodes, py)
  /\ HasKey(kg.self.nodes, Bo)
  /\ NodeAt(kg.self.nodes, Bo).type = "person"
  /\ SpeakerDescription \in Descriptions(NodeAt(kg.self.nodes, Bo))
  /\ Len(NodeAt(kg.self.nodes, Bo).occurrences) = 2
  /\ NodeAt(kg.self.nodes, Bo).occurrences[1].source = BatchSource(0)

\* C30: process_transcript tags the content of each processed batch with the
\* source transcript_batch_<i>, where i is the position in the segment list of
\* that batch's first segment (0, batch_size, 2*batch_size, ...); distinct
\* batches get distinct source tags, also when two segments are identical.
C30_BatchSourceTags ==
  [][\A t \in Transcripts, batch_size \in BatchSizes, resps \in [1..2 -> BatchResponses] :
       (process_transcript(t, batch_size, resps) /\ "segments" \in DOMAIN t) =>
          LET calls == ExtractionCalls(World, "self", t, batch_size, resps) IN
          /\ \A c \in 1..Len(calls) : calls[c].source = BatchSource(calls[c].start)
          /\ \A c, d \in 1..Len(calls) : c # d => calls[c].source # calls[d].source]_vars

\* the part of C30 about batches whose first segment equals no earlier segment
C30_HoldsForFirstOfItsKind ==
  [][\A t \in Transcripts, batch_size \in BatchSizes, resps \in [1..2 -> BatchResponses] :
       (process_transcript(t, batch_size, resps) /\ "segments" \in DOMAIN t) =>
          LET calls == ExtractionCalls(World, "self", t, batch_size, resps) IN
          \A c \in 1..Len(calls) :
            (\A j \in 1..calls[c].start : t.segments[j] # t.segments[calls[c].start + 1]) =>
               calls[c].source = BatchSource(calls[c].start)]_vars

\* the record carries every key/value of the properties
Carries(rec, properties) ==
  \A p \in 1..Len(properties) :
    /\ properties[p].k \in DOMAIN rec
    /\ rec[properties[p].k] = properties[p].v

\* C22: set_entity_properties(name, properties) returns False and changes
\* nothing when no entity has that name (compared case-insensitively); otherwise
\* it returns True, the entity carries every given key/value afterwards, and all
\* other entities and all relationships are unchanged. On both backends.
\* (the entity of a name is the one whose identity key, the lowercase of the name
\* it was created under, is the lowercase of that name)
C22_SetEntityProperties ==
  [][storeCall'.op = "set_entity_properties" =>
       LET a == storeCall'.args
           mem == { i \in 1..Len(nodes) : nodes[i].key = Lower(a.name) }
           fdb == { i \in 1..Len(graph.ents) : graph.ents[i].name_lower = Lower(a.name) }
       IN /\ IF mem = {}
             THEN /\ storeCall'.mem = FALSE
                  /\ nodes' = nodes /\ relationships' = relationships
             ELSE /\ storeCall'.mem = TRUE
                  /\ relationships' = relationships
                  /\ Len(nodes') = Len(nodes)
                  /\ \A i \in 1..Len(nodes) :
                       IF i \in mem
                       THEN nodes'[i].key = nodes[i].key /\ Carries(nodes'[i].val, a.properties)
                       ELSE nodes'[i] = nodes[i]
          /\ IF fdb = {}
             THEN /\ storeCall'.fdb = FALSE
                  /\ graph' = graph
             ELSE /\ storeCall'.fdb = TRUE
                  /\ graph'.edges = graph.edges /\ graph'.occs = graph.occs
                  /\ Len(graph'.ents) = Len(graph.ents)
                  /\ \A i \in 1..Len(graph.ents) :
                       IF i \in fdb
                       THEN Carries(graph'.ents[i], a.properties)
                       ELSE graph'.ents[i] = graph.ents[i]]_vars

\* C22 witness: set_entity_properties was called with a property under a name
\* written in another case than the entity's; it returned True on both backends
\* and the entity carries the property on both.
C22_Witness ==
  /\ storeCall.op = "set_entity_properties"
  /\ storeCall.mem = TRUE /\ storeCall.fdb = TRUE
  /\ storeCall.args.properties # << >>
  /\ MemGetEntity(nodes, storeCall.args.name).name # storeCall.args.name
  /\ Carries(MemGetEntity(nodes, storeCall.args.name), storeCall.args.properties)
  /\ Carries(graph.ents[FdbFirst(graph, Lower(storeCall.args.name))],
             storeCall.args.properties)

\* C22 witness of the other case: set_entity_properties returned False on both
\* backends of a store that has entities
C22_WitnessNoEntity ==
  /\ storeCall.op = "set_entity_properties"
  /\ storeCall.mem = FALSE /\ storeCall.fdb = FALSE
  /\ storeCall.args.properties # << >>
  /\ Len(nodes) > 0

\* C23: raw_query on the in-process backend, and cypher on an engine over it,
\* fail with NotImplementedError for every query string; they never return an
\* empty result in its place and they leave the store unchanged.
C23_RawQueryUnsupported ==
  [][lastQuery'.method \in {"cypher", "raw_query"} =>
       /\ lastQuery'.outcome.raised
       /\ lastQuery'.outcome.error = NotImplementedError
       /\ "result" \notin DOMAIN lastQuery'.outcome
       /\ nodes' = nodes /\ relationships' = relationships]_vars

\* C23 witness: cypher was called with a query on an engine over a store that
\* holds entities and relationships, and NotImplementedError left the call.
C23_Witness ==
  /\ lastQuery.method = "cypher"
  /\ lastQuery.args.query = "MATCH (n) RETURN n"
  /\ lastQuery.outcome.raised
  /\ Len(nodes) > 0 /\ Len(relationships) > 0

\* ------------------------------------------------- AgentOrchestrator claims

\* n times the name
Times(n, name) == [i \in 1..n |-> name]

\* what C24 says of one _execute_step call, from the orchestrator before it,
\* the outcomes of the attempts and of the fallback, and the record of the call
StepAsClaimed(before, report, e, after) ==
  LET w0 == [agent |-> before, report |-> report]
      n == before.max_retries
      attempt(i) == RunStep(w0, e.step, e.outs[i])
      succeeded == { i \in 1..n : ~attempt(i).raised }
      fallback == GetFallback(e.step)
  IN /\ ~e.escaped
     /\ Len(SelectSeq(e.runs, LAMBDA name : name = e.step)) <= n
     /\ e.step \in DOMAIN after.results
     /\ IF succeeded # {}
        THEN LET first == CHOOSE i \in succeeded : \A j \in succeeded : i <= j IN
             /\ e.runs = Times(first, e.step)
             /\ after.results[e.step] = attempt(first).result
        ELSE IF fallback = None
        THEN /\ e.runs = Times(n, e.step)
             /\ "error" \in DOMAIN after.results[e.step]
        ELSE /\ e.runs = Times(n, e.step) \o << fallback >>
             /\ IF RunStep(w0, fallback, e.fb).raised
                THEN "error" \in DOMAIN after.results[e.step]
                ELSE after.results[e.step] = RunStep(w0, fallback, e.fb).result

\* C24: _execute_step runs a step at most max_retries times and stops at the
\* first attempt that succeeds, storing that attempt's result under the step
\* name; when every attempt fails it stores an error record under the step name
\* and then runs the step's fallback, if one is defined, exactly once (a
\* successful fallback result replaces the error record); no exception from a
\* step or from its fallback reaches the caller.
C24_ExecuteStep ==
  [][run'.pc = run.pc + 1 =>
       StepAsClaimed(agent, run.report, run'.executed, agent')]_vars

\* C24 witness: detect_diagrams failed max_retries times, its fallback ran once
\* and returned, and the fallback's result stands under detect_diagrams.
C24_Witness ==
  /\ run.executed.step = "detect_diagrams"
  /\ run.executed.runs = Times(agent.max_retries, "detect_diagrams") \o << "screengrab_fallback" >>
  /\ agent.max_retries = MaxRetries
  /\ agent.results["detect_diagrams"] = EmptyDict

\* C24 witness of the other cases: a step succeeded at its second attempt; a
\* step without fallback failed every attempt and left an error record
C24_WitnessRetry ==
  /\ run.executed.step = "extract_audio"
  /\ run.executed.runs = << "extract_audio", "extract_audio" >>
  /\ "audio_path" \in DOMAIN agent.results["extract_audio"]

C24_WitnessError ==
  /\ run.executed.step = "transcribe"
  /\ run.executed.runs = Times(agent.max_retries, "transcribe")
  /\ "error" \in DOMAIN agent.results["transcribe"]

\* the names of the first n steps of the plan: the steps the loop has executed
ExecutedSteps(n) == { agent.plan[i].step : i \in 1..n }

\* no step name is in the plan twice
NoStepTwice(plan) ==
  \A i, j \in 1..Len(plan) : plan[i].step = plan[j].step => i = j

\* C25: in every run of process, generate_reports is the last step executed:
\* once it has been executed the loop executes no further step, the ones that
\* _adapt_plan appended included, and no insight is produced after it, so the
\* report has every insight of the run; adaptation adds no step name twice.
C25_ReportLast ==
  [][ /\ NoStepTwice(agent'.plan)
      /\ "generate_reports" \in ExecutedSteps(run.pc) =>
           /\ run'.pc = run.pc
           /\ agent'.insights = agent.insights ]_vars

\* the part of C25 that holds: adaptation adds each step name at most once, so
\* the plan never exceeds the ten step names of the comprehensive plan and the loop ends
C25_EachStepNameOnce ==
  /\ NoStepTwice(agent.plan)
  /\ run.pc <= Len(agent.plan)
  /\ Len(agent.plan) <= Len(CreatePlan("comprehensive"))

\* the part of C25 that holds: a plan that contains deep_analysis and
\* cross_reference from the start (depth comprehensive) ends with the report,
\* which then has every insight
C25_HoldsForComprehensive ==
  (/\ run.phase = "done"
   /\ Len(agent.plan) = Len(CreatePlan("comprehensive"))
   /\ agent.plan[7].step = "deep_analysis"
   /\ run.report # None)
  => /\ agent.plan[Len(agent.plan)].step = "generate_reports"
     /\ run.report = agent.insights

\* how many times the record is in the sequence
CountOf(record, s) == Cardinality({i \in 1..Len(s) : s[i] = record})

\* the stored relationship records with an endpoint within d-1 hops of the seed
WithinReach(seed, rels, d) ==
  LET near == Reach({Lower(seed)}, rels, d - 1)
  IN SelectSeq(rels, LAMBDA rel : Lower(rel.source) \in near \/ Lower(rel.target) \in near)

\* a neighbors(seed, d) call on an existing seed with an integer depth d >= 1
NeighborsOfExisting ==
  /\ lastQuery.method = "neighbors"
  /\ lastQuery.args.entity_name.t = "str"
  /\ MemHasEntity(nodes, lastQuery.args.entity_name.s)
  /\ lastQuery.args.depth.t = "num"
  /\ lastQuery.args.depth.n >= 1

\* C26: for an existing seed and every depth d >= 1, the relationship part of
\* neighbors(seed, d) holds exactly the stored relationships that have an
\* endpoint within d-1 hops of the seed, each stored record exactly once.
C26_NeighborsRelationships ==
  NeighborsOfExisting =>
    LET got == RelationshipRecords(lastQuery.outcome.result.data.items)
        expected == WithinReach(lastQuery.args.entity_name.s, relationships,
                                lastQuery.args.depth.n)
    IN /\ ~lastQuery.outcome.raised
       /\ {got[i] : i \in 1..Len(got)} = {expected[i] : i \in 1..Len(expected)}
       /\ \A i \in 1..Len(got) : CountOf(got[i], got) = CountOf(got[i], expected)

\* the part of C26 that holds: at every depth the result has the claimed
\* relationships and no other, whatever the number of copies
C26_SameRelationships ==
  NeighborsOfExisting =>
    LET got == RelationshipRecords(lastQuery.outcome.result.data.items)
        expected == WithinReach(lastQuery.args.entity_name.s, relationships,
                                lastQuery.args.depth.n)
    IN {got[i] : i \in 1..Len(got)} = {expected[i] : i \in 1..Len(expected)}

\* the part of C26 that holds: at depth 1 the relationship part is the list of
\* the stored relationships incident to the seed, each once, in stored order
C26_HoldsAtDepthOne ==
  (NeighborsOfExisting /\ lastQuery.args.depth.n = 1) =>
    RelationshipRecords(lastQuery.outcome.result.data.items)
      = WithinReach(lastQuery.args.entity_name.s, relationships, 1)

\* ------------------------------------------------------ KnowledgeGraph.merge

\* what a reader of `other` sees: its nodes with the contents of their
\* description sets, and its relationship list
OtherSeen ==
  [nodes |-> [i \in 1..Len(kg.other.nodes) |->
                [key |-> kg.other.nodes[i].key,
                 val |-> kg.other.nodes[i].val,
                 descriptions |-> heap[kg.other.nodes[i].val.descriptions]]],
   relationships |-> kg.other.relationships]

\* C27: merge(other) never modifies `other`, then or later: no merge and no
\* later operation on the destination changes the nodes of `other`, their
\* description sets, their occurrence sequences or its relationship list.
C27_MergeLeavesOther ==
  [][(ncalls' = ncalls + 1 /\ call'.g = "self") => OtherSeen' = OtherSeen]_vars

\* no two keys of `other` are equal case-insensitively
OtherKeysDiffer ==
  \A i, j \in 1..Len(kg.other.nodes) :
     Lower(kg.other.nodes[i].key) = Lower(kg.other.nodes[j].key) => i = j

\* the part of C27 that holds: the merge call itself leaves `other` as it was
\* when no two keys of `other` are equal case-insensitively
C27_HoldsDuringMerge ==
  [][(ncalls' = ncalls + 1 /\ call'.op = "merge" /\ OtherKeysDiffer)
       => OtherSeen' = OtherSeen]_vars

\* the part of C27 that holds: whatever is done to the destination, the keys,
\* names, types and occurrences of the nodes of `other` and its relationship
\* list stay as they were
C27_HoldsButDescriptions ==
  [][(ncalls' = ncalls + 1 /\ call'.g = "self") => kg'.other = kg.other]_vars

\* ------------------------------------------------- the store's keys and counts

\* every entity of get_all_entities() is the one get_entity finds under its
\* name, and no two entities have names equal case-insensitively
KeyedByName(ns) ==
  LET all == MemGetAllEntities(ns) IN
  /\ \A i \in 1..Len(all) : MemGetEntity(ns, all[i].name) = all[i]
  /\ \A i, j \in 1..Len(all) : Lower(all[i].name) = Lower(all[j].name) => i = j

\* the call sets the property "name"
SetsName(c) ==
  /\ c.op = "set_entity_properties"
  /\ \E i \in 1..Len(c.args.properties) : c.args.properties[i].k = "name"

\* C28: in the in-process store every entity is stored under the lowercase of
\* its own name: after any sequence of merge_entity, add_occurrence,
\* add_relationship, add_typed_relationship and set_entity_properties calls,
\* get_entity(e["name"]) returns e for every entity e of get_all_entities(),
\* and no two entities have names equal case-insensitively.
C28_KeyedByLowercaseName == KeyedByName(nodes)

\* the part of C28 that holds: every call other than a set_entity_properties
\* with the key "name" keeps the entities under the lowercase of their names
C28_HoldsOtherwise ==
  [][(KeyedByName(nodes) /\ ~SetsName(storeCall')) => KeyedByName(nodes')]_vars

\* C29: on both backends, after any sequence of contract operations,
\* get_relationship_count() equals the number of records that
\* get_all_relationships() returns.
C29_CountIsNumberOfRecords ==
  /\ MemGetRelationshipCount(relationships) = Len(MemGetAllRelationships(relationships))
  /\ FdbGetRelationshipCount(graph) = Len(FdbGetAllRelationships(graph))

\* the part of C29 that holds: the in-process backend counts the list it returns
C29_HoldsInMemory ==
  MemGetRelationshipCount(relationships) = Len(MemGetAllRelationships(relationships))

\* the part of C29 that holds: on the graph-database backend the count is the
\* number of records until an edge with a label other than RELATED_TO and
\* OCCURRED_IN is created
C29_HoldsWithoutTypedEdges ==
  (\A i \in 1..Len(graph.edges) : graph.edges[i].label \in {"RELATED_TO", "OCCURRED_IN"})
    => FdbGetRelationshipCount(graph) = Len(FdbGetAllRelationships(graph))

====
